---- MODULE Spec2Model ----
(***************************************************************************)
(* StoryTree: the three-field workflow state machine (stage / status /     *)
(* terminus) of a story node, as written by its two state-changing         *)
(* writers:                                                                *)
(*   - the GUI, XstoryExplorer._change_node_status ->                      *)
(*     StatusChangeDialog -> XstoryExplorer._update_node_status_in_db      *)
(*     (src/xstory.py);                                                    *)
(*   - the CLI, update_status (src/code-verification/update_status.py).    *)
(*                                                                         *)
(* The database is the table story_nodes (one row per story id) and the    *)
(* closure table story_paths.  The key column of story_nodes is abstract:  *)
(* a row is addressed by its story id, whatever the column is called.      *)
(* Text is a sequence of characters, so that str.strip() is computed.      *)
(* The notes column is the sequence of its entries (the code joins them    *)
(* with newlines).  Wall-clock time is the logical clock `now`, read once  *)
(* by every handler run that reaches its datetime.now() call.              *)
(*                                                                         *)
(* Specifications:                                                         *)
(*   Spec         the two writers on one database;                         *)
(*   SpecPosture  the GUI alone, with the respond-mode toggle and the      *)
(*                transition buttons of the detail view;                   *)
(*   SpecSort     the sibling order of _load_nodes_from_db;                *)
(*   SpecTree     the tree read from story_paths: the loader, the          *)
(*                ancestor walk, list_orphans.py and tree_health.py;       *)
(*   SpecWalk     the ancestor walk alone, its loop weakly fair;           *)
(*   SpecFilter   the filter sidebar of the GUI: respond toggle,           *)
(*                checkboxes, All / None buttons and the filtered tree;    *)
(*   SpecPush     push_fast.py in full push mode, sequential or parallel;  *)
(*   SpecPull     pull_fast.py in full pull mode;                          *)
(*   SpecSync     sync_storytree.py;                                       *)
(*   SpecScripts  any one of the three scripts.                            *)
(***************************************************************************)
EXTENDS Integers, Sequences, FiniteSets, TLC

VARIABLES
    story_nodes,   \* table story_nodes: story id -> row
    story_paths,   \* table story_paths: set of <<ancestor, descendant, depth>>
    nodes,         \* XstoryExplorer.nodes: the GUI's in-memory StoryNode cache
    dialog,        \* the modal StatusChangeDialog that is open, or NoDialog
    msgbox,        \* title of the QMessageBox the last handler raised, or "none"
    status_bar,    \* XstoryExplorer.status_bar message
    result,        \* what the last command-line run returned and printed, or NULL
    now,           \* logical clock behind datetime.now()
    lastOp,        \* history: the handler that ran last, with its arguments
    prev,          \* history: story_nodes as it was before that handler ran
    writes,        \* history: the accepted row writes, oldest first
    respond_mode_active,  \* XstoryExplorer.respond_mode_active
    tree,          \* XstoryExplorer.nodes, the fields read from story_paths:
                   \* story id -> parent_id, depth, descendants_count
    walk,          \* the running XstoryExplorer._get_ancestors call, or NoWalk
    children,      \* a StoryNode.children list: ids, each a sequence of characters
    status_checkboxes,     \* XstoryExplorer.status_checkboxes: name -> isChecked()
    saved_checkbox_states, \* XstoryExplorer._saved_checkbox_states, <<>> if empty
    tree_items,    \* XstoryExplorer.tree_items: the ids the tree widget shows,
                   \* each with the UserRole data of its item
    script,        \* the git script that runs, with its command-line options
    main,          \* the state of that script's main()
    workers,       \* subtree prefix -> the state of its push or pull
    repo           \* the git repository and stash as the scripts find them

vars == <<story_nodes, story_paths, nodes, dialog, msgbox, status_bar,
          result, now, lastOp, prev, writes,
          respond_mode_active, tree, walk, children,
          status_checkboxes, saved_checkbox_states, tree_items,
          script, main, workers, repo>>

\* the filter checkboxes and their saved copy
checkbox_vars == <<status_checkboxes, saved_checkbox_states>>

\* the state of the git scripts
script_vars == <<script, main, workers, repo>>

\* the part of the state the workflow handlers leave alone
view_vars == <<respond_mode_active, walk, children, checkbox_vars, script_vars>>

(***************************************************************************)
(* Bounds                                                                  *)
(***************************************************************************)
\* number of handler runs that read the clock (row writes and GUI rejections
\* raised after the timestamp was taken)
MaxClock == 2

\* the longest children list that is sorted
MaxSiblings == 4

\* the most files a merge leaves in conflict
MaxConflicts == 2

(***************************************************************************)
(* Program constants                                                       *)
(***************************************************************************)
NULL == "NULL"

STAGE_VALUES == {"epic", "concept", "planning", "implementing", "testing", "releasing"}

STATUS_VALUES_HOLDS == {"escalated", "paused", "blocked", "broken", "polish",
                        "conflicted", "wishlisted", "queued"}

TERMINUS_VALUES == {"shipped", "rejected", "infeasible", "duplicative", "legacy",
                    "deprecated", "archived"}

VALID_STAGES == {"concept", "approved", "planned", "active", "reviewing", "verifying",
                 "implemented", "ready", "polish", "released"}

(***************************************************************************)
(* Inputs                                                                  *)
(***************************************************************************)
\* story ids with a row in story_nodes, and one id without a row
StoryIds == {"root", "1"}
AbsentId == "2"

\* ids handed to the writers: a story with a row, and the id without one
\* ("root" is the row next to it that no call names)
IdInputs == {"1", AbsentId}

\* targets handed to the GUI writer: one per category, the target with the
\* mandatory note, and one that is in no category table
GuiTargets == {"testing", "polish", "shipped", "bogus"}

\* stages handed to the CLI writer: a stage both writers know, the value the
\* GUI classifies as a status, and one that is not in VALID_STAGES
CliStages == {"concept", "polish", "bogus"}

\* what the user types into the dialog's text area
DialogTexts == {<<>>, <<" ">>, <<" ", "a">>}

\* the CLI's notes argument: None, or a text
CliNotes == {NULL, <<"v">>}

NoDialog == [open |-> FALSE]

\* history record of one handler run: its arguments as given and how it ended
Op(op, id, target, hold, notes, outcome) ==
    [op |-> op, id |-> id, target |-> target, hold |-> hold,
     notes |-> notes, outcome |-> outcome]

NoOp == Op("init", NULL, NULL, FALSE, NULL, "none")

\* history record of one accepted row write: the column the target went to
Write(by, id, target, field) ==
    [by |-> by, id |-> id, target |-> target, field |-> field]

(***************************************************************************)
(* Pure functions                                                          *)
(***************************************************************************)
RECURSIVE lstrip(_)
lstrip(s) ==
    IF s # <<>> /\ Head(s) = " " THEN lstrip(Tail(s)) ELSE s

RECURSIVE rstrip(_)
rstrip(s) ==
    IF s # <<>> /\ s[Len(s)] = " " THEN rstrip(SubSeq(s, 1, Len(s) - 1)) ELSE s

\* str.strip() of the dialog text
strip(s) == rstrip(lstrip(s))

\* SQL COALESCE: the first argument that is not NULL, NULL if all are
RECURSIVE COALESCE(_)
COALESCE(args) ==
    IF args = <<>> THEN NULL
    ELSE IF Head(args) # NULL THEN Head(args) ELSE COALESCE(Tail(args))

\* python `a or b or ...` over strings and None: the first operand that is
\* neither None nor empty, else the last one
RECURSIVE py_or(_)
py_or(args) ==
    IF Len(args) = 1 THEN Head(args)
    ELSE IF Head(args) # NULL /\ Head(args) # "" THEN Head(args) ELSE py_or(Tail(args))

\* COALESCE(terminus, CASE WHEN status = 'ready' THEN NULL ELSE status END, stage)
effective_status_StatusFirst(row) ==
    COALESCE(<<IF row.status = "ready" THEN NULL ELSE row.status, row.terminus, row.stage>>)

effective_status(row) ==
    COALESCE(<<row.terminus, IF row.status = "ready" THEN NULL ELSE row.status, row.stage>>)

\* list_orphans.py: the status shown for an orphan
display_status(row) ==
    py_or(<<row.terminus, IF row.status # "ready" THEN row.status ELSE NULL, row.stage>>)

\* one StoryNode of the GUI cache, built from a row
StoryNode(row) ==
    [effective_status |-> py_or(<<effective_status(row), "concept">>),
     stage |-> py_or(<<row.stage, "concept">>),
     status |-> py_or(<<row.status, "ready">>),
     terminus |-> row.terminus]

\* XstoryExplorer._load_nodes_from_db: the cache rebuilt from the table
load_nodes_from_db(table) ==
    [i \in DOMAIN table |-> StoryNode(table[i])]

\* _change_node_status: notes are mandatory for this target
mandatory_Never(new_status) == FALSE

mandatory(new_status) == new_status = "polish"

\* the transition tables of the detail view
FILTER_TRANSITIONS ==
    [infeasible |-> <<"concept", "wishlisted", "archived">>,
     rejected   |-> <<"concept", "wishlisted", "archived">>,
     wishlisted |-> <<"concept", "rejected", "archived">>,
     concept    |-> <<"planning", "escalated", "rejected", "wishlisted", "polish">>,
     polish     |-> <<"concept", "releasing", "rejected", "wishlisted">>,
     planning   |-> <<"escalated", "rejected">>,
     blocked    |-> <<"escalated">>,
     paused     |-> <<"escalated">>,
     testing    |-> <<"releasing">>,
     releasing  |-> <<"shipped", "polish">>,
     legacy     |-> <<"deprecated", "archived">>,
     deprecated |-> <<"archived", "legacy">>,
     archived   |-> <<"deprecated", "wishlisted">>]

RESPOND_TRANSITIONS ==
    [planning     |-> <<"implementing">>,
     blocked      |-> <<"planning", "implementing">>,
     broken       |-> <<"implementing", "paused", "blocked">>,
     paused       |-> <<"implementing", "blocked">>,
     implementing |-> <<"testing", "paused", "broken", "blocked">>,
     testing      |-> <<"implementing", "broken", "releasing">>,
     releasing    |-> <<"testing", "broken">>,
     polish       |-> <<"testing">>]

ESCALATED_FILTER_TRANSITIONS ==
    [concept      |-> <<"planning", "polish", "wishlisted", "rejected", "paused">>,
     planning     |-> <<"queued", "polish", "wishlisted", "rejected">>,
     implementing |-> <<"wishlisted", "rejected", "broken">>,
     testing      |-> <<"releasing", "polish">>,
     releasing    |-> <<"shipped", "polish">>]

ESCALATED_RESPOND_TRANSITIONS ==
    [concept      |-> <<"planning">>,
     planning     |-> <<"implementing">>,
     implementing |-> <<"testing", "broken">>,
     testing      |-> <<"releasing">>,
     releasing    |-> <<"shipped">>]

\* python dict.get(key, [])
dict_get(d, key) == IF key \in DOMAIN d THEN d[key] ELSE <<>>

\* DetailView._add_status_actions: the targets the footer buttons offer
add_status_actions(node, in_respond_mode) ==
    IF node.status = "escalated"
    THEN IF in_respond_mode
         THEN dict_get(ESCALATED_RESPOND_TRANSITIONS, node.stage)
         ELSE dict_get(ESCALATED_FILTER_TRANSITIONS, node.stage)
    ELSE IF in_respond_mode
         THEN dict_get(RESPOND_TRANSITIONS, node.effective_status)
         ELSE dict_get(FILTER_TRANSITIONS, node.effective_status)

\* the if/elif chain of _update_node_status_in_db that picks the field
category_OfferedOnly(new_status) ==
    IF \A k \in DOMAIN add_status_actions(nodes[dialog.node_id], respond_mode_active) :
           add_status_actions(nodes[dialog.node_id], respond_mode_active)[k] # new_status
    THEN "unknown"
    ELSE IF new_status \in TERMINUS_VALUES THEN "terminus"
    ELSE IF new_status \in STATUS_VALUES_HOLDS THEN "status"
    ELSE IF new_status \in STAGE_VALUES THEN "stage"
    ELSE "unknown"

category_StageByDefault(new_status) ==
    IF new_status \in TERMINUS_VALUES THEN "terminus"
    ELSE IF new_status \in STATUS_VALUES_HOLDS THEN "status"
    ELSE "stage"

category(new_status) ==
    IF new_status \in TERMINUS_VALUES THEN "terminus"
    ELSE IF new_status \in STATUS_VALUES_HOLDS THEN "status"
    ELSE IF new_status \in STAGE_VALUES THEN "stage"
    ELSE "unknown"

\* "[timestamp] Status changed to 'new_status'" with ": notes" when notes is
\* not empty
new_note_entry(timestamp, new_status, notes) ==
    [ts |-> timestamp, label |-> "Status changed", target |-> new_status, text |-> notes]

\* current_notes + "\n" + new_note_entry, or the entry alone
updated_notes(current_notes, entry) == Append(current_notes, entry)

\* UPDATE ... SET terminus = ?, status = 'ready', notes = ?, updated_at = ?
set_terminus_KeepStatus(row, new_status, new_notes, ts) ==
    [row EXCEPT !.terminus = new_status, !.notes = new_notes, !.updated_at = ts]

set_terminus(row, new_status, new_notes, ts) ==
    [row EXCEPT !.terminus = new_status, !.status = "ready",
                !.notes = new_notes, !.updated_at = ts]

\* UPDATE ... SET status = ?, terminus = NULL, notes = ?, updated_at = ?
set_status_KeepTerminus(row, new_status, new_notes, ts) ==
    [row EXCEPT !.status = new_status, !.notes = new_notes, !.updated_at = ts]

set_status_Toggle(row, new_status, new_notes, ts) ==
    [row EXCEPT !.status = IF row.status = new_status THEN "ready" ELSE new_status,
                !.terminus = NULL, !.notes = new_notes, !.updated_at = ts]

set_status(row, new_status, new_notes, ts) ==
    [row EXCEPT !.status = new_status, !.terminus = NULL,
                !.notes = new_notes, !.updated_at = ts]

\* UPDATE ... SET stage = ?, status = 'ready', terminus = NULL, notes = ?, updated_at = ?
set_stage(row, new_status, new_notes, ts) ==
    [row EXCEPT !.stage = new_status, !.status = "ready", !.terminus = NULL,
                !.notes = new_notes, !.updated_at = ts]

\* the row as the executed UPDATE leaves it (category is not "unknown")
gui_updated_row(row, new_status, notes, ts) ==
    LET new_notes == updated_notes(row.notes, new_note_entry(ts, new_status, notes))
    IN  CASE category(new_status) = "terminus" -> set_terminus(row, new_status, new_notes, ts)
          [] category(new_status) = "status"   -> set_status(row, new_status, new_notes, ts)
          [] OTHER                             -> set_stage(row, new_status, new_notes, ts)

\* the table after the GUI's UPDATE ... WHERE id = node_id
gui_update_NoWhere(table, node_id, new_status, notes, ts) ==
    [i \in DOMAIN table |-> gui_updated_row(table[i], new_status, notes, ts)]

gui_update(table, node_id, new_status, notes, ts) ==
    [i \in DOMAIN table |->
        IF i = node_id THEN gui_updated_row(table[i], new_status, notes, ts)
        ELSE table[i]]

\* update_status: existing notes plus "[Verification timestamp] notes"
cli_new_notes(existing_notes, notes, ts) ==
    IF notes # NULL /\ notes # <<>>
    THEN Append(existing_notes,
                [ts |-> ts, label |-> "Verification", target |-> NULL, text |-> notes])
    ELSE existing_notes

\* update_status, hold branch:
\* SET status = 'escalated', human_review = 1, notes = ?, updated_at = datetime('now')
cli_hold_row(row, new_notes, ts) ==
    [row EXCEPT !.status = "escalated", !.human_review = 1,
                !.notes = new_notes, !.updated_at = ts]

\* update_status, normal branch:
\* SET stage = ?, status = 'ready', human_review = 0, notes = ?, updated_at = datetime('now')
cli_stage_row(row, new_stage, new_notes, ts) ==
    [row EXCEPT !.stage = new_stage, !.status = "ready", !.human_review = 0,
                !.notes = new_notes, !.updated_at = ts]

\* the table after the CLI's UPDATE ... WHERE story_path = story_id
cli_update_HoldIgnored(table, story_id, new_stage, notes, hold, ts) ==
    [i \in DOMAIN table |->
        IF i = story_id
        THEN cli_stage_row(table[i], new_stage,
                           cli_new_notes(table[i].notes, notes, ts), ts)
        ELSE table[i]]

cli_update(table, story_id, new_stage, notes, hold, ts) ==
    [i \in DOMAIN table |->
        IF i = story_id
        THEN LET new_notes == cli_new_notes(table[i].notes, notes, ts)
             IN  IF hold THEN cli_hold_row(table[i], new_notes, ts)
                 ELSE cli_stage_row(table[i], new_stage, new_notes, ts)
        ELSE table[i]]

(***************************************************************************)
(* The tree as the GUI reads it from the closure table story_paths, a set  *)
(* of rows <<ancestor_id, descendant_id, depth>>                           *)
(***************************************************************************)
\* python `x or 0` on the integer a COUNT(*) expression yields
or_0(x) == IF x = 0 THEN 0 ELSE x

\* the values the scalar subquery for parent_id can yield: the ancestor of
\* a depth-1 row of the node (which one, if there are several, is up to
\* the engine), NULL if there is none
parent_id_values(paths, id) ==
    LET rows == {r \in paths : r[2] = id /\ r[3] = 1}
    IN  IF rows = {} THEN {NULL} ELSE {r[1] : r \in rows}

\* depth column: the least depth of a row from another ancestor, else 0
node_depth(paths, id) ==
    LET depths == {r[3] : r \in {q \in paths : q[2] = id /\ q[1] # id}}
    IN  IF depths = {} THEN 0 ELSE CHOOSE m \in depths : \A x \in depths : m <= x

\* descendants_count column and its `or 0` default
descendants_count_NoMinusOne(paths, id) ==
    or_0(Cardinality({r \in paths : r[1] = id}))

descendants_count(paths, id) ==
    or_0(Cardinality({r \in paths : r[1] = id}) - 1)

\* the caches _load_nodes_from_db can build from story_paths
load_tree_from_db(table, paths) ==
    LET choices == {p \in [DOMAIN table -> {NULL} \cup {r[1] : r \in paths}] :
                        \A i \in DOMAIN table : p[i] \in parent_id_values(paths, i)}
    IN  {[i \in DOMAIN table |->
            [parent_id |-> p[i],
             depth |-> node_depth(paths, i),
             descendants_count |-> descendants_count(paths, i)]] : p \in choices}

\* XstoryExplorer._refresh: the cache is rebuilt from the table
refresh_Skipped(old_nodes, table) == old_nodes

refresh(old_nodes, table) == load_nodes_from_db(table)

\* no _get_ancestors call is running
NoWalk == [pc |-> "idle"]

(***************************************************************************)
(* The filter sidebar: the checkboxes, their saved copy and the tree the   *)
(* filter leaves in the widget                                             *)
(***************************************************************************)
STAGE_ORDER == <<"epic", "concept", "planning", "implementing", "testing", "releasing">>

STATUS_ORDER_HOLDS == <<"ready", "broken", "conflicted", "blocked", "escalated", "paused",
                        "polish", "queued", "wishlisted">>

TERMINUS_ORDER == <<"active", "shipped", "infeasible", "rejected", "duplicative",
                    "deprecated", "legacy", "archived">>

\* the members of a python list
items(list) == {list[k] : k \in DOMAIN list}

\* the keys of status_checkboxes after _setup_ui
CheckboxNames == items(STAGE_ORDER) \cup items(STATUS_ORDER_HOLDS) \cup items(TERMINUS_ORDER)

\* _setup_ui: every checkbox is created with setChecked(True) before its
\* stateChanged signal is connected
setup_ui == [name \in CheckboxNames |-> TRUE]

\* _save_checkbox_states: the dict it stores
save_checkbox_states(checkboxes) == [name \in DOMAIN checkboxes |-> checkboxes[name]]

\* _restore_checkbox_states: the checkboxes as it leaves them
restore_checkbox_states(checkboxes, saved) ==
    IF DOMAIN saved = {}
    THEN [name \in DOMAIN checkboxes |-> TRUE]
    ELSE [name \in DOMAIN checkboxes |->
             IF name \in DOMAIN saved THEN saved[name] ELSE TRUE]

\* _apply_respond_preset: the checkboxes as it leaves them
apply_respond_preset(checkboxes) ==
    [name \in DOMAIN checkboxes |->
        IF name \in items(STAGE_ORDER) THEN TRUE
        ELSE IF name = "escalated" THEN TRUE
        ELSE IF name \in items(STATUS_ORDER_HOLDS) THEN FALSE
        ELSE IF name = "shipped" THEN TRUE
        ELSE IF name \in items(TERMINUS_ORDER) THEN FALSE
        ELSE checkboxes[name]]

\* the window state the checkbox handlers read and write
Ui(checkboxes, saved, respond, bar) ==
    [checkboxes |-> checkboxes, saved |-> saved, respond |-> respond, bar |-> bar]

\* _on_checkbox_changed, run by stateChanged outside the internal flag
on_checkbox_changed(ui) ==
    IF ui.respond
    THEN [ui EXCEPT !.respond = FALSE, !.bar = "OFF - manual filter adjustment"]
    ELSE [ui EXCEPT !.saved = save_checkbox_states(ui.checkboxes)]

\* QCheckBox.setChecked outside the internal flag: stateChanged fires only
\* when the state changes
setChecked(ui, name, checked) ==
    IF ui.checkboxes[name] = checked THEN ui
    ELSE on_checkbox_changed([ui EXCEPT !.checkboxes[name] = checked])

\* _select_category_statuses: setChecked on each checkbox of the category,
\* in the order of the list
RECURSIVE select_category_statuses(_, _, _)
select_category_statuses(ui, statuses, checked) ==
    IF statuses = <<>> THEN ui
    ELSE select_category_statuses(
             IF Head(statuses) \in DOMAIN ui.checkboxes
             THEN setChecked(ui, Head(statuses), checked) ELSE ui,
             Tail(statuses), checked)

\* python truth of a string or None
truthy(x) == x # NULL /\ x # ""

\* _apply_filters.node_matches_filter
node_matches_filter_Both(node, checkboxes) ==
    LET checked_statuses == {s \in items(STATUS_ORDER_HOLDS) : checkboxes[s]}
        checked_termini == {s \in items(TERMINUS_ORDER) : checkboxes[s]}
    IN  /\ node.status \in checked_statuses
        /\ IF truthy(node.terminus) THEN node.terminus \in checked_termini
           ELSE "active" \in checked_termini

node_matches_filter(node, checkboxes) ==
    LET checked_stages == {s \in items(STAGE_ORDER) : checkboxes[s]}
        checked_statuses == {s \in items(STATUS_ORDER_HOLDS) : checkboxes[s]}
        checked_termini == {s \in items(TERMINUS_ORDER) : checkboxes[s]}
        show_ready == "ready" \in checked_statuses
        show_active == "active" \in checked_termini
        status_ok ==
            IF truthy(node.status) /\ node.status # "ready" /\ node.status \in checked_statuses
            THEN TRUE
            ELSE show_ready /\ (~truthy(node.status) \/ node.status = "ready")
        term_ok ==
            IF truthy(node.terminus) /\ node.terminus \in checked_termini
            THEN TRUE
            ELSE show_active /\ ~truthy(node.terminus)
    IN  IF node.stage \notin checked_stages THEN FALSE
        ELSE status_ok \/ term_ok

\* _get_ancestors run to its end: whether its loop ends, and the set it
\* returns when it does
RECURSIVE get_ancestors_ends(_, _, _)
get_ancestors_ends(t, node, ancestors) ==
    IF node = NULL \/ ~truthy(t[node].parent_id) THEN TRUE
    ELSE IF t[node].parent_id \in ancestors THEN FALSE
    ELSE get_ancestors_ends(t, IF t[node].parent_id \in DOMAIN t
                              THEN t[node].parent_id ELSE NULL,
                            ancestors \cup {t[node].parent_id})

RECURSIVE get_ancestors_set(_, _, _)
get_ancestors_set(t, node, ancestors) ==
    IF node = NULL \/ ~truthy(t[node].parent_id) THEN ancestors
    ELSE get_ancestors_set(t, IF t[node].parent_id \in DOMAIN t
                             THEN t[node].parent_id ELSE NULL,
                           ancestors \cup {t[node].parent_id})

\* _add_filtered_node: the ids of the items it adds for a node and the
\* visible children below it
RECURSIVE add_filtered_node(_, _, _)
add_filtered_node(t, node_id, visible_nodes) ==
    IF node_id \notin visible_nodes THEN {}
    ELSE {node_id} \cup
         UNION {add_filtered_node(t, c, visible_nodes) :
                   c \in {c \in DOMAIN t : /\ t[c].parent_id = node_id
                                           /\ c \in visible_nodes}}

\* _apply_filters returns: no walk over the matching nodes runs for ever
apply_filters_ends(ns, t, checkboxes) ==
    \A i \in DOMAIN ns :
        node_matches_filter(ns[i], checkboxes) => get_ancestors_ends(t, i, {})

\* _apply_filters: tree_items as it leaves it, id -> UserRole data
apply_filters(ns, t, checkboxes) ==
    LET matching_nodes == {i \in DOMAIN ns : node_matches_filter(ns[i], checkboxes)}
        ancestor_nodes == UNION {get_ancestors_set(t, i, {}) : i \in matching_nodes}
        visible_nodes == matching_nodes \cup ancestor_nodes
        faded_nodes == ancestor_nodes \ matching_nodes
        root_nodes == {i \in DOMAIN ns :
                          /\ ~truthy(t[i].parent_id) \/ t[i].parent_id \notin DOMAIN ns
                          /\ i \in visible_nodes}
        shown == UNION {add_filtered_node(t, i, visible_nodes) : i \in root_nodes}
    IN  [i \in shown |-> IF i \in faded_nodes THEN "faded" ELSE "normal"]

(***************************************************************************)
(* The git scripts at rest                                                 *)
(***************************************************************************)
\* no script runs
NoScript == [name |-> "none"]

ScriptsIdle ==
    /\ script = NoScript
    /\ main = [pc |-> "idle"]
    /\ workers = <<>>
    /\ repo = [uncommitted |-> FALSE, stash |-> 0, merge_in_progress |-> FALSE]

(***************************************************************************)
(* Initial state: the database as the GUI found and loaded it              *)
(***************************************************************************)
Row(stage, status, terminus) ==
    [stage |-> stage, status |-> status, terminus |-> terminus,
     human_review |-> 0, notes |-> <<>>, updated_at |-> 0]

\* story_paths of the tree root -> "1", with the depth-0 self rows
ClosureRows == {<<"root", "root", 0>>, <<"1", "1", 0>>, <<"root", "1", 1>>}

InitRows == {Row("concept", "ready", NULL),
             Row("concept", "escalated", NULL),
             Row("testing", "ready", NULL),
             Row("releasing", "ready", "shipped")}

Init ==
    /\ \E r \in InitRows :
          story_nodes = [i \in StoryIds |-> IF i = "root" THEN Row("epic", "ready", NULL) ELSE r]
    /\ story_paths = ClosureRows
    /\ nodes = load_nodes_from_db(story_nodes)
    /\ dialog = NoDialog
    /\ msgbox = "none"
    /\ status_bar = "Loaded"
    /\ result = NULL
    /\ now = 0
    /\ lastOp = NoOp
    /\ prev = story_nodes
    /\ writes = <<>>
    /\ respond_mode_active = TRUE
    /\ tree \in load_tree_from_db(story_nodes, story_paths)
    /\ walk = NoWalk
    /\ children = <<>>
    /\ status_checkboxes = setup_ui
    /\ saved_checkbox_states = <<>>
    /\ tree_items = apply_filters(nodes, tree, status_checkboxes)
    /\ ScriptsIdle

(***************************************************************************)
(* GUI handlers                                                            *)
(***************************************************************************)
\* XstoryExplorer._load_database -> _refresh: the user opens the database
\* file again
load_database ==
    /\ dialog = NoDialog
    /\ nodes' = refresh(nodes, story_nodes)
    /\ tree' \in load_tree_from_db(story_nodes, story_paths)
    /\ apply_filters_ends(nodes', tree', status_checkboxes)
    /\ tree_items' = apply_filters(nodes', tree', status_checkboxes)
    /\ status_bar' = "Loaded"
    /\ msgbox' = "none"
    /\ result' = NULL
    /\ lastOp' = Op("load_database", NULL, NULL, FALSE, NULL, "loaded")
    /\ prev' = story_nodes
    /\ UNCHANGED <<story_nodes, story_paths, dialog, now, writes>>
    /\ UNCHANGED view_vars

\* XstoryExplorer._change_node_status up to dialog.exec(): a node the cache
\* does not hold returns at once, any other opens the modal dialog
change_node_status(node_id, new_status) ==
    /\ dialog = NoDialog
    /\ IF node_id \notin DOMAIN nodes
       THEN /\ dialog' = dialog
            /\ lastOp' = Op("change_node_status", node_id, new_status, FALSE, NULL, "ignored")
       ELSE /\ dialog' = [open |-> TRUE, node_id |-> node_id, new_status |-> new_status,
                          mandatory |-> mandatory(new_status)]
            /\ lastOp' = Op("change_node_status", node_id, new_status, FALSE, NULL, "dialog")
    /\ msgbox' = "none"
    /\ result' = NULL
    /\ prev' = story_nodes
    /\ UNCHANGED <<story_nodes, story_paths, nodes, tree, tree_items, status_bar, now, writes>>
    /\ UNCHANGED view_vars

\* the user cancels the dialog: dialog.exec() is not Accepted
dialog_reject ==
    /\ dialog.open
    /\ dialog' = NoDialog
    /\ msgbox' = "none"
    /\ result' = NULL
    /\ lastOp' = Op("dialog_reject", dialog.node_id, dialog.new_status, FALSE, NULL, "cancelled")
    /\ prev' = story_nodes
    /\ UNCHANGED <<story_nodes, story_paths, nodes, tree, tree_items, status_bar, now, writes>>
    /\ UNCHANGED view_vars

\* StatusChangeDialog._on_confirm, and on acceptance the rest of
\* _change_node_status: _update_node_status_in_db with its trailing _refresh
on_confirm(text) ==
    /\ dialog.open
    /\ LET notes == strip(text)
           node_id == dialog.node_id
           new_status == dialog.new_status
       IN  IF dialog.mandatory /\ notes = <<>>
           THEN \* warning box, the dialog stays open
                /\ msgbox' = "Notes Required"
                /\ lastOp' = Op("on_confirm", node_id, new_status, FALSE, text, "notes_required")
                /\ UNCHANGED <<story_nodes, nodes, tree, tree_items, dialog, status_bar, now, writes>>
           ELSE /\ now < MaxClock
                /\ now' = now + 1
                /\ dialog' = NoDialog
                /\ IF category(new_status) = "unknown"
                   THEN \* ValueError before any UPDATE, caught: critical box
                        /\ msgbox' = "Database Error"
                        /\ lastOp' = Op("on_confirm", node_id, new_status, FALSE, text,
                                        "value_error")
                        /\ UNCHANGED <<story_nodes, nodes, tree, tree_items, status_bar, writes>>
                   ELSE /\ story_nodes' = gui_update(story_nodes, node_id, new_status,
                                                     notes, now + 1)
                        /\ nodes' = refresh(nodes, story_nodes')
                        /\ tree' \in load_tree_from_db(story_nodes', story_paths)
                        /\ tree_items' = apply_filters(nodes', tree', status_checkboxes)
                        /\ status_bar' = "Loaded"
                        /\ msgbox' = "none"
                        /\ lastOp' = Op("on_confirm", node_id, new_status, FALSE, text,
                                        "updated")
                        /\ writes' = IF node_id \in DOMAIN story_nodes
                                     THEN Append(writes, Write("gui", node_id, new_status,
                                                               category(new_status)))
                                     ELSE writes
    /\ prev' = story_nodes
    /\ result' = NULL
    /\ UNCHANGED story_paths
    /\ UNCHANGED view_vars

(***************************************************************************)
(* CLI                                                                     *)
(***************************************************************************)
\* update_status(story_id, new_stage, notes, hold)
update_status(story_id, new_stage, notes, hold) ==
    /\ IF new_stage \notin VALID_STAGES
       THEN /\ result' = [error |-> "Invalid stage"]
            /\ lastOp' = Op("update_status", story_id, new_stage, hold, notes, "invalid_stage")
            /\ UNCHANGED <<story_nodes, now, writes>>
       ELSE IF story_id \notin DOMAIN story_nodes
       THEN /\ result' = [error |-> "Story not found"]
            /\ lastOp' = Op("update_status", story_id, new_stage, hold, notes, "not_found")
            /\ UNCHANGED <<story_nodes, now, writes>>
       ELSE /\ now < MaxClock
            /\ now' = now + 1
            /\ story_nodes' = cli_update(story_nodes, story_id, new_stage, notes, hold, now + 1)
            /\ result' = [success |-> TRUE, story_id |-> story_id,
                          old_stage |-> story_nodes[story_id].stage,
                          new_stage |-> IF hold THEN story_nodes[story_id].stage ELSE new_stage,
                          hold_set |-> hold, notes_added |-> notes # NULL]
            /\ lastOp' = Op("update_status", story_id, new_stage, hold, notes, "updated")
            /\ writes' = Append(writes, Write("cli", story_id, new_stage,
                                              IF hold THEN "hold" ELSE "stage"))
    /\ prev' = story_nodes
    /\ msgbox' = "none"
    /\ UNCHANGED <<story_paths, nodes, tree, tree_items, dialog, status_bar>>
    /\ UNCHANGED view_vars

Next ==
    \/ load_database
    \/ \E node_id \in IdInputs, new_status \in GuiTargets :
          change_node_status(node_id, new_status)
    \/ dialog_reject
    \/ \E text \in DialogTexts : on_confirm(text)
    \/ \E story_id \in IdInputs, new_stage \in CliStages, notes \in CliNotes,
          hold \in BOOLEAN :
          update_status(story_id, new_stage, notes, hold)

Spec == Init /\ [][Next]_vars

(***************************************************************************)
(* Operator posture: the respond-mode toggle and the transition buttons    *)
(* the detail view offers                                                  *)
(***************************************************************************)
\* DetailView._on_status_button_clicked: the user clicks a footer button of
\* the node shown, which calls _change_node_status
on_status_button_clicked(node_id, new_status) ==
    /\ node_id \in DOMAIN nodes
    /\ \E k \in DOMAIN add_status_actions(nodes[node_id], respond_mode_active) :
           add_status_actions(nodes[node_id], respond_mode_active)[k] = new_status
    /\ change_node_status(node_id, new_status)

\* XstoryExplorer._toggle_respond_mode: the checkboxes restored or set to
\* the preset, the flag flipped, then _apply_filters
toggle_respond_mode ==
    /\ dialog = NoDialog
    /\ status_checkboxes' = IF respond_mode_active
                            THEN restore_checkbox_states(status_checkboxes,
                                                         saved_checkbox_states)
                            ELSE apply_respond_preset(status_checkboxes)
    /\ apply_filters_ends(nodes, tree, status_checkboxes')
    /\ respond_mode_active' = ~respond_mode_active
    /\ status_bar' = IF respond_mode_active THEN "OFF - filters restored" ELSE "ON"
    /\ tree_items' = apply_filters(nodes, tree, status_checkboxes')
    /\ msgbox' = "none"
    /\ result' = NULL
    /\ lastOp' = Op("toggle_respond_mode", NULL, NULL, FALSE, NULL, "toggled")
    /\ prev' = story_nodes
    /\ UNCHANGED <<story_nodes, story_paths, nodes, tree, dialog, now, writes,
                   walk, children, saved_checkbox_states>>
    /\ UNCHANGED script_vars

NextPosture ==
    \/ load_database
    \/ toggle_respond_mode
    \/ \E node_id \in IdInputs, new_status \in GuiTargets :
          change_node_status(node_id, new_status)
    \/ \E node_id \in IdInputs, new_status \in GuiTargets :
          on_status_button_clicked(node_id, new_status)
    \/ dialog_reject
    \/ \E text \in DialogTexts : on_confirm(text)

SpecPosture == Init /\ [][NextPosture]_vars

(***************************************************************************)
(* Sibling order: _load_nodes_from_db sorts every children list by         *)
(* _sort_key.  A node id is a sequence of characters here.                 *)
(***************************************************************************)
Digits == {"0", "1", "2", "3", "4", "5", "6", "7", "8", "9"}

\* the value of a decimal digit
digit(c) ==
    CASE c = "0" -> 0 [] c = "1" -> 1 [] c = "2" -> 2 [] c = "3" -> 3 [] c = "4" -> 4
      [] c = "5" -> 5 [] c = "6" -> 6 [] c = "7" -> 7 [] c = "8" -> 8 [] c = "9" -> 9

\* the code point of a character of an id
ord(c) ==
    CASE c = "." -> 46 [] c \in Digits -> 48 + digit(c)
      [] c = "a" -> 97 [] c = "o" -> 111 [] c = "r" -> 114 [] c = "t" -> 116

root_id == <<"r", "o", "o", "t">>

\* str.split('.')
RECURSIVE split(_)
split(str) ==
    IF \A k \in DOMAIN str : str[k] # "."
    THEN <<str>>
    ELSE LET k == CHOOSE j \in DOMAIN str :
                      str[j] = "." /\ \A h \in 1 .. j - 1 : str[h] # "."
         IN  <<SubSeq(str, 1, k - 1)>> \o split(SubSeq(str, k + 1, Len(str)))

\* int(p) raises ValueError: p is not a run of decimal digits
ValueError(p) == p = <<>> \/ \E k \in DOMAIN p : p[k] \notin Digits

\* int(p) of a run of decimal digits
RECURSIVE int(_)
int(p) ==
    IF p = <<>> THEN 0
    ELSE 10 * int(SubSeq(p, 1, Len(p) - 1)) + digit(p[Len(p)])

\* XstoryExplorer._sort_key: a tuple of integers, or (2, node_id)
sort_key_Lexicographic(node_id) ==
    IF node_id = root_id THEN <<0>> ELSE <<2, node_id>>

sort_key(node_id) ==
    IF node_id = root_id THEN <<0>>
    ELSE LET parts == split(node_id)
         IN  IF \E k \in DOMAIN parts : ValueError(parts[k])
             THEN <<2, node_id>>
             ELSE <<1>> \o [k \in DOMAIN parts |-> int(parts[k])]

\* a < b for two sequences of integers, as python orders tuples
RECURSIVE ints_lt(_, _)
ints_lt(a, b) ==
    IF b = <<>> THEN FALSE
    ELSE IF a = <<>> THEN TRUE
    ELSE IF Head(a) # Head(b) THEN Head(a) < Head(b)
    ELSE ints_lt(Tail(a), Tail(b))

\* a < b for two strings: by code point
str_lt(a, b) ==
    ints_lt([k \in DOMAIN a |-> ord(a[k])], [k \in DOMAIN b |-> ord(b[k])])

\* a < b for two values of _sort_key
key_lt(a, b) ==
    IF a[1] # b[1] THEN a[1] < b[1]
    ELSE IF a[1] = 2 THEN str_lt(a[2], b[2])
    ELSE ints_lt(Tail(a), Tail(b))

\* list.sort(key=_sort_key): a stable sort
RECURSIVE sort(_)
sort(list) ==
    IF Len(list) <= 1 THEN list
    ELSE LET front == sort(SubSeq(list, 1, Len(list) - 1))
             x == list[Len(list)]
             k == Cardinality({j \in DOMAIN front :
                                  ~key_lt(sort_key(x), sort_key(front[j]))})
         IN  SubSeq(front, 1, k) \o <<x>> \o SubSeq(front, k + 1, Len(front))

\* the ids a children list is drawn from
SiblingIds ==
    {root_id, <<"1">>, <<"2">>, <<"1", "0">>, <<"1", "0", ".", "1">>,
     <<"0", "2">>, <<"a">>, <<"1", "a">>}

\* the children lists of up to MaxSiblings nodes, in any order
ChildrenLists ==
    {list \in UNION {[1 .. n -> SiblingIds] : n \in 0 .. MaxSiblings} :
        \A i, j \in DOMAIN list : i # j => list[i] # list[j]}

\* the last loop of _load_nodes_from_db, for one node
sort_children ==
    /\ children' = sort(children)
    /\ lastOp' = Op("sort_children", NULL, NULL, FALSE, children, "sorted")
    /\ UNCHANGED <<story_nodes, story_paths, nodes, dialog, msgbox, status_bar,
                   result, now, prev, writes, respond_mode_active, tree, tree_items, walk>>
    /\ UNCHANGED <<checkbox_vars, script_vars>>

\* a loaded database and a children list yet to be sorted
InitSort ==
    /\ story_nodes = [i \in StoryIds |-> Row("epic", "ready", NULL)]
    /\ story_paths = ClosureRows
    /\ nodes = load_nodes_from_db(story_nodes)
    /\ tree \in load_tree_from_db(story_nodes, story_paths)
    /\ dialog = NoDialog
    /\ msgbox = "none"
    /\ status_bar = "Loaded"
    /\ result = NULL
    /\ now = 0
    /\ lastOp = NoOp
    /\ prev = story_nodes
    /\ writes = <<>>
    /\ respond_mode_active = TRUE
    /\ walk = NoWalk
    /\ children \in ChildrenLists
    /\ status_checkboxes = setup_ui
    /\ saved_checkbox_states = <<>>
    /\ tree_items = apply_filters(nodes, tree, status_checkboxes)
    /\ ScriptsIdle

NextSort == sort_children

SpecSort == InitSort /\ [][NextSort]_vars

(***************************************************************************)
(* The tree store: the ancestor walk of the GUI and the two diagnostic     *)
(* tools, over databases whose closure table may lack rows or hold wrong   *)
(* ones                                                                    *)
(***************************************************************************)
TreeIds == {"root", "1", "1.1"}

\* the self rows and the rows of the tree root -> "1" -> "1.1"
TreeRows ==
    {<<"root", "root", 0>>, <<"1", "1", 0>>, <<"1.1", "1.1", 0>>,
     <<"root", "1", 1>>, <<"1", "1.1", 1>>, <<"root", "1.1", 2>>}

\* a row that closes a cycle and a row from a node that does not exist
WrongRows == {<<"1.1", "1", 1>>, <<"9", "1.1", 3>>}

\* XstoryExplorer._get_ancestors up to its loop: ancestors = set(),
\* node = self.nodes.get(node_id)
get_ancestors(node_id) ==
    /\ walk.pc # "loop"
    /\ walk' = [pc |-> "loop", node_id |-> node_id, ancestors |-> {},
                node |-> IF node_id \in DOMAIN tree THEN node_id ELSE NULL]
    /\ lastOp' = Op("get_ancestors", node_id, NULL, FALSE, NULL, "called")
    /\ UNCHANGED <<story_nodes, story_paths, nodes, tree, tree_items, dialog, msgbox, status_bar,
                   result, now, prev, writes, respond_mode_active, children>>
    /\ UNCHANGED <<checkbox_vars, script_vars>>

\* one test of `while node and node.parent_id`, then the loop body or the
\* return
get_ancestors_loop_ParentOnly ==
    /\ walk.pc = "loop"
    /\ IF walk.node # NULL /\ tree[walk.node].parent_id \notin {NULL, ""}
       THEN walk' = [walk EXCEPT !.ancestors = @ \cup {tree[walk.node].parent_id},
                                 !.pc = "done"]
       ELSE walk' = [walk EXCEPT !.pc = "done"]
    /\ UNCHANGED <<story_nodes, story_paths, nodes, tree, tree_items, dialog, msgbox, status_bar,
                   result, now, lastOp, prev, writes, respond_mode_active, children>>
    /\ UNCHANGED <<checkbox_vars, script_vars>>

get_ancestors_loop ==
    /\ walk.pc = "loop"
    /\ IF walk.node # NULL /\ tree[walk.node].parent_id \notin {NULL, ""}
       THEN LET parent_id == tree[walk.node].parent_id
            IN  walk' = [walk EXCEPT !.ancestors = @ \cup {parent_id},
                                     !.node = IF parent_id \in DOMAIN tree
                                              THEN parent_id ELSE NULL]
       ELSE walk' = [walk EXCEPT !.pc = "done"]
    /\ UNCHANGED <<story_nodes, story_paths, nodes, tree, tree_items, dialog, msgbox, status_bar,
                   result, now, lastOp, prev, writes, respond_mode_active, children>>
    /\ UNCHANGED <<checkbox_vars, script_vars>>

\* list_orphans.py: the rows its query selects
orphan_rows(table, paths) ==
    {i \in DOMAIN table : i # "root" /\ ~\E r \in paths : r[2] = i}

\* list_orphans.py main: what it prints and the exit code it returns
list_orphans_Repair(ids_only) ==
    LET orphans == orphan_rows(story_nodes, story_paths)
    IN  /\ result' = [tool |-> "list_orphans", exit_code |-> 0, orphans |-> orphans]
        /\ story_paths' = story_paths \cup {<<"root", i, 1>> : i \in orphans}
        /\ lastOp' = Op("list_orphans", NULL, NULL, ids_only, NULL, "exit")
        /\ UNCHANGED <<story_nodes, nodes, tree, tree_items, dialog, msgbox, status_bar,
                       now, prev, writes, respond_mode_active, walk, children>>
        /\ UNCHANGED <<checkbox_vars, script_vars>>

list_orphans(ids_only) ==
    LET orphans == orphan_rows(story_nodes, story_paths)
    IN  /\ result' =
               [tool |-> "list_orphans",
                exit_code |-> 0,
                orphans |-> orphans,
                printed |-> IF orphans = {} THEN IF ids_only THEN {} ELSE {"No orphaned nodes found."}
                            ELSE IF ids_only THEN orphans
                            ELSE {<<i, display_status(story_nodes[i])>> : i \in orphans}]
        /\ lastOp' = Op("list_orphans", NULL, NULL, ids_only, NULL, "exit")
        /\ UNCHANGED <<story_nodes, story_paths, nodes, tree, tree_items, dialog, msgbox, status_bar,
                       now, prev, writes, respond_mode_active, walk, children>>
        /\ UNCHANGED <<checkbox_vars, script_vars>>

\* story_db_common.validate_tree_structure: the issues by category
validate_tree_structure(table, paths) ==
    [orphans |->
         {i \in DOMAIN table : i # "root" /\ ~\E r \in paths : r[2] = i /\ r[1] # i},
     missing_nodes |->
         {r \in paths : r[1] \notin DOMAIN table \/ r[2] \notin DOMAIN table},
     parent_mismatch |->
         {r \in paths : r[3] = 1 /\ \E q \in paths : q[3] = 1 /\ q[2] = r[2] /\ q[1] # r[1]},
     cycles |->
         {r \in paths : r[1] # r[2] /\ \E q \in paths : q[1] = r[2] /\ q[2] = r[1]}]

\* tree_health.py main: sum(len(v) for v in issues.values())
total_issues(issues) ==
    Cardinality(issues.orphans) + Cardinality(issues.missing_nodes)
        + Cardinality(issues.parent_mismatch) + Cardinality(issues.cycles)

\* tree_health.py main: the report and the exit code it returns
tree_health(output_json) ==
    LET issues == validate_tree_structure(story_nodes, story_paths)
    IN  /\ result' = [tool |-> "tree_health",
                      exit_code |-> IF total_issues(issues) = 0 THEN 0 ELSE 1,
                      issues |-> issues,
                      health_status |-> IF total_issues(issues) = 0
                                        THEN "healthy" ELSE "issues_found"]
        /\ lastOp' = Op("tree_health", NULL, NULL, output_json, NULL, "exit")
        /\ UNCHANGED <<story_nodes, story_paths, nodes, tree, tree_items, dialog, msgbox, status_bar,
                       now, prev, writes, respond_mode_active, walk, children>>
        /\ UNCHANGED <<checkbox_vars, script_vars>>

\* a database with some of the rows of the tree, and the GUI after
\* _load_nodes_from_db read it, with no tree shown yet
InitTree ==
    /\ \E r \in {Row("testing", "ready", NULL), Row("releasing", "ready", "shipped"),
                 Row("releasing", "escalated", "shipped")} :
          story_nodes = [i \in TreeIds |->
                            IF i = "root" THEN Row("epic", "ready", NULL)
                            ELSE IF i = "1" THEN Row("concept", "escalated", NULL)
                            ELSE r]
    /\ story_paths \in SUBSET (TreeRows \cup WrongRows)
    /\ nodes = load_nodes_from_db(story_nodes)
    /\ tree \in load_tree_from_db(story_nodes, story_paths)
    /\ dialog = NoDialog
    /\ msgbox = "none"
    /\ status_bar = "Loaded"
    /\ result = NULL
    /\ now = 0
    /\ lastOp = NoOp
    /\ prev = story_nodes
    /\ writes = <<>>
    /\ respond_mode_active = TRUE
    /\ walk = NoWalk
    /\ children = <<>>
    /\ status_checkboxes = setup_ui
    /\ saved_checkbox_states = <<>>
    /\ tree_items = <<>>
    /\ ScriptsIdle

NextTree ==
    \/ load_database
    \/ \E node_id \in TreeIds \cup {AbsentId} : get_ancestors(node_id)
    \/ get_ancestors_loop
    \/ \E ids_only \in BOOLEAN : list_orphans(ids_only)
    \/ \E output_json \in BOOLEAN : tree_health(output_json)

SpecTree == InitTree /\ [][NextTree]_vars

\* the ancestor walk alone: _get_ancestors is called, and once called its
\* loop runs on, as the thread that called it does nothing else
NextWalk ==
    \/ \E node_id \in TreeIds \cup {AbsentId} : get_ancestors(node_id)
    \/ get_ancestors_loop

SpecWalk == InitTree /\ [][NextWalk]_vars /\ WF_vars(get_ancestors_loop)

(***************************************************************************)
(* The filter sidebar in use: the respond toggle, single checkboxes and    *)
(* the All / None buttons of the three categories, over a loaded tree      *)
(***************************************************************************)
FilterIds == {"root", "1", "1.1", "2"}

\* story_paths of the tree root -> "1" -> "1.1", root -> "2"
FilterRows == TreeRows \cup {<<"2", "2", 0>>, <<"root", "2", 1>>}

\* the checkboxes the user clicks one by one
ClickNames == {"ready", "escalated", "shipped"}

\* the lists the All and None buttons pass to _select_category_statuses
Categories == {STAGE_ORDER, STATUS_ORDER_HOLDS, TERMINUS_ORDER}

\* the window state before a checkbox handler runs
CurrentUi == Ui(status_checkboxes, saved_checkbox_states, respond_mode_active, status_bar)

\* what a handler that ended in window state ui leaves behind; every
\* stateChanged signal ran _apply_filters
checkboxes_changed(ui) ==
    /\ apply_filters_ends(nodes, tree, ui.checkboxes)
    /\ status_checkboxes' = ui.checkboxes
    /\ saved_checkbox_states' = ui.saved
    /\ respond_mode_active' = ui.respond
    /\ status_bar' = ui.bar
    /\ tree_items' = apply_filters(nodes, tree, ui.checkboxes)
    /\ msgbox' = "none"
    /\ result' = NULL
    /\ prev' = story_nodes
    /\ UNCHANGED <<story_nodes, story_paths, nodes, tree, dialog, now, writes,
                   walk, children>>
    /\ UNCHANGED script_vars

\* the user clicks one checkbox: the stateChanged lambda of _setup_ui
checkbox_clicked(name) ==
    /\ dialog = NoDialog
    /\ checkboxes_changed(setChecked(CurrentUi, name, ~status_checkboxes[name]))
    /\ lastOp' = Op("checkbox_clicked", NULL, name, FALSE, NULL,
                    IF respond_mode_active THEN "respond" ELSE "filter")

\* the user clicks the All or the None button of a category
select_category_clicked(statuses, checked) ==
    /\ dialog = NoDialog
    /\ checkboxes_changed(select_category_statuses(CurrentUi, statuses, checked))
    /\ lastOp' = Op("select_category_statuses", NULL, Head(statuses), checked, NULL,
                    IF respond_mode_active THEN "respond" ELSE "filter")

\* the window as it opens on a database with four stories
InitFilter ==
    /\ story_nodes = [i \in FilterIds |->
                         IF i = "root" THEN Row("epic", "ready", NULL)
                         ELSE IF i = "1" THEN Row("concept", "escalated", NULL)
                         ELSE IF i = "1.1" THEN Row("releasing", "ready", "shipped")
                         ELSE Row("testing", "ready", NULL)]
    /\ story_paths = FilterRows
    /\ nodes = load_nodes_from_db(story_nodes)
    /\ tree \in load_tree_from_db(story_nodes, story_paths)
    /\ dialog = NoDialog
    /\ msgbox = "none"
    /\ status_bar = "Loaded"
    /\ result = NULL
    /\ now = 0
    /\ lastOp = NoOp
    /\ prev = story_nodes
    /\ writes = <<>>
    /\ respond_mode_active = TRUE
    /\ walk = NoWalk
    /\ children = <<>>
    /\ status_checkboxes = setup_ui
    /\ saved_checkbox_states = <<>>
    /\ tree_items = apply_filters(nodes, tree, status_checkboxes)
    /\ ScriptsIdle

NextFilter ==
    \/ load_database
    \/ toggle_respond_mode
    \/ \E name \in ClickNames : checkbox_clicked(name)
    \/ \E statuses \in Categories, checked \in BOOLEAN :
          select_category_clicked(statuses, checked)

SpecFilter == InitFilter /\ [][NextFilter]_vars

(***************************************************************************)
(* The git scripts: push_fast.py, pull_fast.py and sync_storytree.py.  A   *)
(* git command is an external process; what it returns is an input of the  *)
(* step that runs it.                                                      *)
(***************************************************************************)
\* everything but the scripts' own state and the record of the last step
window_vars == <<story_nodes, story_paths, nodes, dialog, msgbox, status_bar, result,
                 now, prev, writes, respond_mode_active, tree, walk, children,
                 status_checkboxes, saved_checkbox_states, tree_items>>

\* (prefix, branch) of each subtree
SUBTREES ==
    <<<<".claude/skills/storytree", "dist-skills">>,
      <<".claude/commands/storytree", "dist-commands">>,
      <<".claude/scripts/storytree", "dist-scripts">>,
      <<".github/actions/storytree", "dist-actions">>,
      <<".storytree/gui", "dist-gui">>>>

\* the subtrees change detection may report as changed
ChangedSubtrees == {".claude/skills/storytree", ".storytree/gui"}

\* to_push / to_pull: the subtrees with changes, in the order of SUBTREES
with_changes(changed) ==
    LET has_changes(s) == s[1] \in changed
    IN  SelectSeq(SUBTREES, has_changes)

\* the prefixes of a to_push / to_pull list
prefixes(list) == {list[k][1] : k \in DOMAIN list}

\* the prefixes listed before prefix p
before(list, p) == {list[k][1] : k \in {j \in DOMAIN list : \E i \in DOMAIN list :
                                            i > j /\ list[i][1] = p}}

\* the outcomes of the git commands resolve_conflicts runs: whether
\* MERGE_HEAD exists, how many files get_conflicted_files lists, and the
\* first command that fails, if any
GitResolve ==
    {[merge |-> m, conflicts |-> n, fail |-> f] :
        m \in BOOLEAN, n \in 0 .. MaxConflicts,
        f \in {"none", "checkout", "add", "commit"}}

\* resolve_conflicts(mode): what it returns, whether it ran git merge
\* --abort and whether MERGE_HEAD exists when it returns
resolve_conflicts(mode, git) ==
    LET aborted(message) ==
            \* if is_merge_in_progress(): abort_merge()
            [success |-> FALSE, message |-> message,
             abort_invoked |-> git.merge, merge_in_progress |-> FALSE]
        returned(success, message, merge) ==
            [success |-> success, message |-> message,
             abort_invoked |-> FALSE, merge_in_progress |-> merge]
    IN  IF mode = "abort" THEN aborted("aborted")
        ELSE IF git.conflicts = 0 THEN returned(TRUE, "no conflicts", git.merge)
        ELSE IF git.fail = "checkout" THEN aborted("checkout failed")
        ELSE IF git.fail = "add" THEN aborted("add failed")
        ELSE IF git.fail = "commit" THEN returned(FALSE, "commit failed", git.merge)
        ELSE returned(TRUE, "resolved", FALSE)

\* a subtree push or pull that was not started yet: the git subtree
\* commands and the recoveries it ran, the result of its first command and
\* of its recovery, and what it returned
Submitted == [pc |-> "submitted", attempts |-> 0, recoveries |-> 0,
              rc |-> "none", recovered |-> FALSE,
              success |-> FALSE, message |-> <<>>]

\* a subtree push or pull that returned (success, message)
returns(worker, success, message) ==
    [worker EXCEPT !.pc = "returned", !.success = success, !.message = message]

\* a step of a script: the record of the last step
script_step(op, prefix, outcome) ==
    /\ lastOp' = Op(op, prefix, NULL, FALSE, NULL, outcome)
    /\ UNCHANGED window_vars

(***************************************************************************)
(* push_fast.py, full push mode                                            *)
(***************************************************************************)
\* main from "# Full push mode" to "Pushing...": nothing to push and the
\* dry run exit with code 0, else the stash when --stash was given and the
\* working tree has uncommitted changes
push_main_begin(stash_ok) ==
    /\ script.name = "push_fast"
    /\ main.pc = "full_push"
    /\ IF main.to_push = <<>> \/ script.dry_run
       THEN /\ main' = [main EXCEPT !.pc = "exited", !.exit_code = 0]
            /\ UNCHANGED repo
       ELSE IF script.stash /\ repo.uncommitted
       THEN \* stash_changes(): 'No local changes' not in output
            /\ main' = [main EXCEPT !.pc = "pushing", !.stashed = TRUE]
            /\ repo' = IF stash_ok
                       THEN [repo EXCEPT !.stash = @ + 1, !.uncommitted = FALSE]
                       ELSE repo
       ELSE /\ main' = [main EXCEPT !.pc = "pushing"]
            /\ UNCHANGED repo
    /\ UNCHANGED <<script, workers>>
    /\ script_step("push_main_begin", NULL, "begun")

\* a call of push_subtree_fast may start: in parallel mode once submitted,
\* in sequential mode when the loop of main has handled the subtrees before
may_start(p) ==
    /\ main.pc = "pushing"
    /\ p \in DOMAIN workers
    /\ workers[p].pc = "submitted"
    /\ script.parallel \/ before(main.to_push, p) \subseteq main.collected

\* push_subtree_fast up to the return or the call of recover_rejected_push:
\* the path test and the first git subtree push
push_subtree_fast_AlwaysRecover(p, exists, rc) ==
    /\ script.name = "push_fast"
    /\ may_start(p)
    /\ workers' = [workers EXCEPT ![p] =
           IF ~exists THEN returns(@, TRUE, <<"skipped (not found)">>)
           ELSE IF rc = "ok"
           THEN returns([@ EXCEPT !.attempts = 1, !.rc = rc], TRUE, <<"OK (pushed)">>)
           ELSE IF rc = "rejected"
           THEN [@ EXCEPT !.attempts = 1, !.rc = rc, !.pc = "recover"]
           ELSE returns([@ EXCEPT !.attempts = 1, !.rc = rc], FALSE, <<"unknown error">>)]
    /\ UNCHANGED <<script, main, repo>>
    /\ script_step("push_subtree_fast", p, IF exists THEN rc ELSE "skipped")

push_subtree_fast(p, exists, rc) ==
    /\ script.name = "push_fast"
    /\ may_start(p)
    /\ workers' = [workers EXCEPT ![p] =
           IF ~exists THEN returns(@, TRUE, <<"skipped (not found)">>)
           ELSE IF rc = "ok"
           THEN returns([@ EXCEPT !.attempts = 1, !.rc = rc], TRUE, <<"OK (pushed)">>)
           ELSE IF rc = "rejected"
           THEN IF script.retry
                THEN [@ EXCEPT !.attempts = 1, !.rc = rc, !.pc = "recover"]
                ELSE returns([@ EXCEPT !.attempts = 1, !.rc = rc], FALSE,
                             <<"rejected (diverged) - use --retry to auto-recover">>)
           ELSE returns([@ EXCEPT !.attempts = 1, !.rc = rc], FALSE, <<"unknown error">>)]
    /\ UNCHANGED <<script, main, repo>>
    /\ script_step("push_subtree_fast", p, IF exists THEN rc ELSE "skipped")

\* recover_rejected_push(prefix, branch, resolve_mode): what it returns
\* and the merge state it leaves
recover_rejected_push(resolve_mode, uncommitted_in_prefix, pull_ok, git) ==
    IF uncommitted_in_prefix
    THEN [success |-> FALSE, message |-> <<"uncommitted changes in prefix">>,
          merge_in_progress |-> git.merge]
    ELSE IF pull_ok
    THEN [success |-> TRUE, message |-> <<"recovered (pulled diverged changes)">>,
          merge_in_progress |-> git.merge]
    ELSE IF git.conflicts > 0
    THEN LET resolved == resolve_conflicts(resolve_mode, git)
         IN  IF ~resolved.success
             THEN [success |-> FALSE, message |-> <<"pull conflicts", resolved.message>>,
                   merge_in_progress |-> resolved.merge_in_progress]
             ELSE [success |-> TRUE, message |-> <<"recovered (pulled diverged changes)">>,
                   merge_in_progress |-> resolved.merge_in_progress]
    ELSE [success |-> FALSE, message |-> <<"pull failed">>,
          merge_in_progress |-> git.merge]

\* push_subtree_fast, the call of recover_rejected_push after a rejection
push_recover(p, uncommitted_in_prefix, pull_ok, git) ==
    /\ script.name = "push_fast"
    /\ p \in DOMAIN workers
    /\ workers[p].pc = "recover"
    /\ uncommitted_in_prefix => repo.uncommitted
    /\ repo.merge_in_progress => git.merge
    /\ LET recovered == recover_rejected_push(script.strategy, uncommitted_in_prefix,
                                              pull_ok, git)
       IN  /\ workers' = [workers EXCEPT ![p] =
                  IF recovered.success
                  THEN [@ EXCEPT !.recoveries = @ + 1, !.recovered = TRUE, !.pc = "retry"]
                  ELSE returns([@ EXCEPT !.recoveries = @ + 1], FALSE,
                               <<"rejected">> \o recovered.message)]
           /\ repo' = [repo EXCEPT !.merge_in_progress = recovered.merge_in_progress]
           /\ script_step("recover_rejected_push", p,
                          IF recovered.success THEN "recovered" ELSE "failed")
    /\ UNCHANGED <<script, main>>

\* push_subtree_fast, the second git subtree push after a recovery
push_retry_AppendsFailure(p, rc) ==
    /\ script.name = "push_fast"
    /\ p \in DOMAIN workers
    /\ workers[p].pc = "retry"
    /\ workers' = [workers EXCEPT ![p] =
           IF rc = "ok"
           THEN returns([@ EXCEPT !.attempts = @ + 1], TRUE, <<"OK (recovered and pushed)">>)
           ELSE returns([@ EXCEPT !.attempts = @ + 1], FALSE, <<"push failed after recovery">>)]
    /\ main' = [main EXCEPT !.collected = @ \cup {p},
                            !.failures = IF rc = "ok" THEN @
                                         ELSE Append(@, <<p, <<"push failed after recovery">>>>)]
    /\ UNCHANGED <<script, repo>>
    /\ script_step("push_retry", p, rc)

push_retry(p, rc) ==
    /\ script.name = "push_fast"
    /\ p \in DOMAIN workers
    /\ workers[p].pc = "retry"
    /\ workers' = [workers EXCEPT ![p] =
           IF rc = "ok"
           THEN returns([@ EXCEPT !.attempts = @ + 1], TRUE, <<"OK (recovered and pushed)">>)
           ELSE returns([@ EXCEPT !.attempts = @ + 1], FALSE, <<"push failed after recovery">>)]
    /\ UNCHANGED <<script, main, repo>>
    /\ script_step("push_retry", p, rc)

\* main, the body of `for future in as_completed(futures)` and the tail of
\* the sequential loop: the result of one subtree is printed and a failure
\* is appended to failures
push_collect_Twice(p) ==
    /\ script.name = "push_fast"
    /\ main.pc = "pushing"
    /\ p \in DOMAIN workers
    /\ workers[p].pc = "returned"
    /\ p \notin main.collected
    /\ main' = [main EXCEPT !.collected = @ \cup {p},
                            !.failures = IF workers[p].success THEN @
                                         ELSE @ \o <<<<p, workers[p].message>>,
                                                     <<p, workers[p].message>>>>]
    /\ UNCHANGED <<script, workers, repo>>
    /\ script_step("push_collect", p, IF workers[p].success THEN "ok" ELSE "failure")

push_collect(p) ==
    /\ script.name = "push_fast"
    /\ main.pc = "pushing"
    /\ p \in DOMAIN workers
    /\ workers[p].pc = "returned"
    /\ p \notin main.collected
    /\ main' = [main EXCEPT !.collected = @ \cup {p},
                            !.failures = IF workers[p].success THEN @
                                         ELSE Append(@, <<p, workers[p].message>>)]
    /\ UNCHANGED <<script, workers, repo>>
    /\ script_step("push_collect", p, IF workers[p].success THEN "ok" ELSE "failure")

\* main after the loop: the stash restored if stashed, then the exit code
push_main_end(pop_ok) ==
    /\ script.name = "push_fast"
    /\ main.pc = "pushing"
    /\ main.collected = prefixes(main.to_push)
    /\ main' = [main EXCEPT !.pc = "exited",
                            !.pops = IF main.stashed THEN @ + 1 ELSE @,
                            !.exit_code = IF main.failures # <<>> THEN 1 ELSE 0]
    /\ repo' = IF main.stashed /\ pop_ok /\ repo.stash > 0
               THEN [repo EXCEPT !.stash = @ - 1, !.uncommitted = TRUE]
               ELSE repo
    /\ UNCHANGED <<script, workers>>
    /\ script_step("push_main_end", NULL, "exit")

\* the GUI state while a script runs: no window is open on the database
NoWindow ==
    /\ story_nodes = [i \in StoryIds |-> Row("epic", "ready", NULL)]
    /\ story_paths = ClosureRows
    /\ nodes = load_nodes_from_db(story_nodes)
    /\ tree \in load_tree_from_db(story_nodes, story_paths)
    /\ dialog = NoDialog
    /\ msgbox = "none"
    /\ status_bar = "Loaded"
    /\ result = NULL
    /\ now = 0
    /\ lastOp = NoOp
    /\ prev = story_nodes
    /\ writes = <<>>
    /\ respond_mode_active = TRUE
    /\ walk = NoWalk
    /\ children = <<>>
    /\ status_checkboxes = setup_ui
    /\ saved_checkbox_states = <<>>
    /\ tree_items = apply_filters(nodes, tree, status_checkboxes)

\* the repository as a script finds it: no merge in progress (main exits
\* before anything else when there is one), no stash entry
RepoInputs ==
    {[uncommitted |-> u, stash |-> 0, merge_in_progress |-> FALSE] : u \in BOOLEAN}

\* push_fast.py started in a repository with the remote, at "# Full push
\* mode", the subtrees with changes found
InitPush ==
    /\ NoWindow
    /\ \E dry_run \in BOOLEAN, retry \in BOOLEAN, stash \in BOOLEAN, parallel \in BOOLEAN,
          strategy \in {"abort", "local"} :
          script = [name |-> "push_fast", dry_run |-> dry_run, retry |-> retry,
                    strategy |-> strategy, stash |-> stash, parallel |-> parallel]
    /\ \E changed \in SUBSET ChangedSubtrees :
          /\ main = [pc |-> "full_push", to_push |-> with_changes(changed),
                     stashed |-> FALSE, pops |-> 0, failures |-> <<>>,
                     collected |-> {}, exit_code |-> 0]
          /\ workers = [p \in changed |-> Submitted]
    /\ repo \in RepoInputs

PushResults == {"ok", "rejected", "error"}

NextPush ==
    \/ \E stash_ok \in BOOLEAN : push_main_begin(stash_ok)
    \/ \E p \in ChangedSubtrees, exists \in BOOLEAN, rc \in PushResults :
          push_subtree_fast(p, exists, rc)
    \/ \E p \in ChangedSubtrees, uncommitted_in_prefix \in BOOLEAN, pull_ok \in BOOLEAN,
          git \in GitResolve :
          push_recover(p, uncommitted_in_prefix, pull_ok, git)
    \/ \E p \in ChangedSubtrees, rc \in PushResults : push_retry(p, rc)
    \/ \E p \in ChangedSubtrees : push_collect(p)
    \/ \E pop_ok \in BOOLEAN : push_main_end(pop_ok)

SpecPush == InitPush /\ [][NextPush]_vars

(***************************************************************************)
(* pull_fast.py, full pull mode.  Its resolve_conflicts is the one of      *)
(* push_fast.py, line for line.                                            *)
(***************************************************************************)
\* a subtree pull that was not started yet
PullSubmitted == [pc |-> "submitted", success |-> FALSE, message |-> <<>>,
                  conflicts |-> 0, resolve |-> [called |-> FALSE]]

\* str.upper() on the messages of resolve_conflicts
upper(message) ==
    CASE message = "aborted" -> "ABORTED"
      [] message = "checkout failed" -> "CHECKOUT FAILED"
      [] message = "add failed" -> "ADD FAILED"
      [] message = "commit failed" -> "COMMIT FAILED"
      [] OTHER -> message

\* pull_subtree_fast(prefix, branch, resolve_mode): what it returns, the
\* call of resolve_conflicts it made and the merge state it leaves
pull_subtree_fast(resolve_mode, exists, pull_ok, git) ==
    LET returned(success, message, conflicts, merge) ==
            [success |-> success, message |-> message, conflicts |-> conflicts,
             resolve |-> [called |-> FALSE], merge_in_progress |-> merge]
        resolved == resolve_conflicts(resolve_mode, git)
    IN  IF ~exists THEN returned(TRUE, <<"skipped (not found)">>, 0, git.merge)
        ELSE IF pull_ok THEN returned(TRUE, <<"OK (pulled)">>, 0, git.merge)
        ELSE IF git.conflicts > 0
        THEN [success |-> resolved.success,
              message |-> IF resolved.success THEN <<"OK", resolved.message>>
                          ELSE <<upper(resolved.message)>>,
              conflicts |-> IF resolved.success THEN 0 ELSE git.conflicts,
              resolve |-> [called |-> TRUE, mode |-> resolve_mode, git |-> git,
                           result |-> resolved],
              merge_in_progress |-> resolved.merge_in_progress]
        ELSE returned(FALSE, <<"unknown error">>, 0, git.merge)

\* main from "# Full pull mode" to "Pulling..."
pull_main_begin(stash_ok) ==
    /\ script.name = "pull_fast"
    /\ main.pc = "full_pull"
    /\ IF main.to_pull = <<>> \/ script.dry_run
       THEN /\ main' = [main EXCEPT !.pc = "exited", !.exit_code = 0]
            /\ UNCHANGED repo
       ELSE IF script.stash /\ repo.uncommitted
       THEN \* stash_changes(): 'No local changes' not in output
            /\ main' = [main EXCEPT !.pc = "pulling", !.stashed = TRUE]
            /\ repo' = IF stash_ok
                       THEN [repo EXCEPT !.stash = @ + 1, !.uncommitted = FALSE]
                       ELSE repo
       ELSE /\ main' = [main EXCEPT !.pc = "pulling"]
            /\ UNCHANGED repo
    /\ UNCHANGED <<script, workers>>
    /\ script_step("pull_main_begin", NULL, "begun")

\* main, one pass of the loop over to_pull: the pull of the next subtree
\* and its failure appended to failures
pull_one(p, exists, pull_ok, git) ==
    /\ script.name = "pull_fast"
    /\ main.pc = "pulling"
    /\ p \in DOMAIN workers
    /\ workers[p].pc = "submitted"
    /\ before(main.to_pull, p) \subseteq main.collected
    /\ repo.merge_in_progress => git.merge
    /\ LET pulled == pull_subtree_fast(script.strategy, exists, pull_ok, git)
       IN  /\ workers' = [workers EXCEPT ![p] =
                  [pc |-> "returned", success |-> pulled.success,
                   message |-> pulled.message, conflicts |-> pulled.conflicts,
                   resolve |-> pulled.resolve]]
           /\ main' = [main EXCEPT !.collected = @ \cup {p},
                                   !.failures = IF pulled.success THEN @
                                                ELSE Append(@, <<p, pulled.message>>)]
           /\ repo' = [repo EXCEPT !.merge_in_progress = pulled.merge_in_progress]
           /\ script_step("pull_subtree_fast", p,
                          IF pulled.success THEN "ok" ELSE "failure")
    /\ UNCHANGED script

\* main after the loop: the stash restored if stashed, then the exit code
pull_main_end(pop_ok) ==
    /\ script.name = "pull_fast"
    /\ main.pc = "pulling"
    /\ main.collected = prefixes(main.to_pull)
    /\ main' = [main EXCEPT !.pc = "exited",
                            !.pops = IF main.stashed THEN @ + 1 ELSE @,
                            !.exit_code = IF main.failures # <<>> THEN 1 ELSE 0]
    /\ repo' = IF main.stashed /\ pop_ok /\ repo.stash > 0
               THEN [repo EXCEPT !.stash = @ - 1, !.uncommitted = TRUE]
               ELSE repo
    /\ UNCHANGED <<script, workers>>
    /\ script_step("pull_main_end", NULL, "exit")

\* pull_fast.py started in a repository with the remote, at "# Full pull
\* mode", the subtrees with updates found
InitPull ==
    /\ NoWindow
    /\ \E dry_run \in BOOLEAN, stash \in BOOLEAN, strategy \in {"abort", "local", "remote"} :
          script = [name |-> "pull_fast", dry_run |-> dry_run,
                    strategy |-> strategy, stash |-> stash]
    /\ \E changed \in SUBSET ChangedSubtrees :
          /\ main = [pc |-> "full_pull", to_pull |-> with_changes(changed),
                     stashed |-> FALSE, pops |-> 0, failures |-> <<>>,
                     collected |-> {}, exit_code |-> 0]
          /\ workers = [p \in changed |-> PullSubmitted]
    /\ repo \in RepoInputs

NextPull ==
    \/ \E stash_ok \in BOOLEAN : pull_main_begin(stash_ok)
    \/ \E p \in ChangedSubtrees, exists \in BOOLEAN, pull_ok \in BOOLEAN,
          git \in GitResolve :
          pull_one(p, exists, pull_ok, git)
    \/ \E pop_ok \in BOOLEAN : pull_main_end(pop_ok)

SpecPull == InitPull /\ [][NextPull]_vars

(***************************************************************************)
(* sync_storytree.py: push_fast.py, then pull_fast.py, each run as a       *)
(* process of its own whose exit code is an input                          *)
(***************************************************************************)
\* main up to "success = True": the two directions excluded together, the
\* uncommitted changes refused with --no-stash or stashed in a live run
sync_main_begin(stash_ok) ==
    /\ script.name = "sync_storytree"
    /\ main.pc = "start"
    /\ IF script.push_only /\ script.pull_only
       THEN /\ main' = [main EXCEPT !.pc = "exited", !.exit_code = 1]
            /\ UNCHANGED repo
       ELSE IF repo.uncommitted /\ script.no_stash
       THEN /\ main' = [main EXCEPT !.pc = "exited", !.exit_code = 1]
            /\ UNCHANGED repo
       ELSE IF repo.uncommitted /\ ~script.dry_run
       THEN \* stash_changes(): (False, ...) when git stash push failed
            /\ main' = [main EXCEPT !.pc = "push", !.stashed = stash_ok]
            /\ repo' = IF stash_ok
                       THEN [repo EXCEPT !.stash = @ + 1, !.uncommitted = FALSE]
                       ELSE repo
       ELSE /\ main' = [main EXCEPT !.pc = "push"]
            /\ UNCHANGED repo
    /\ UNCHANGED <<script, workers>>
    /\ script_step("sync_main_begin", NULL, "begun")

\* main, "Step 1: Push (unless --pull-only)": a failed push of a live run
\* restores the stash and exits with code 1
sync_push_Continue(push_ok, pop_ok) ==
    /\ script.name = "sync_storytree"
    /\ main.pc = "push"
    /\ IF script.pull_only
       THEN main' = [main EXCEPT !.pc = "pull"]
       ELSE main' = [main EXCEPT !.pc = "pull", !.push_ran = TRUE,
                                 !.push_success = push_ok,
                                 !.success = push_ok]
    /\ UNCHANGED <<script, workers, repo>>
    /\ script_step("sync_push", NULL,
                   IF script.pull_only THEN "skipped" ELSE IF push_ok THEN "ok" ELSE "failure")

sync_push(push_ok, pop_ok) ==
    /\ script.name = "sync_storytree"
    /\ main.pc = "push"
    /\ IF script.pull_only
       THEN /\ main' = [main EXCEPT !.pc = "pull"]
            /\ UNCHANGED repo
       ELSE IF push_ok
       THEN /\ main' = [main EXCEPT !.pc = "pull", !.push_ran = TRUE,
                                    !.push_success = TRUE]
            /\ UNCHANGED repo
       ELSE IF script.dry_run
       THEN /\ main' = [main EXCEPT !.pc = "pull", !.push_ran = TRUE,
                                    !.push_success = FALSE, !.success = FALSE]
            /\ UNCHANGED repo
       ELSE /\ main' = [main EXCEPT !.pc = "exited", !.push_ran = TRUE,
                                    !.push_success = FALSE, !.success = FALSE,
                                    !.pops = IF main.stashed THEN @ + 1 ELSE @,
                                    !.exit_code = 1]
            /\ repo' = IF main.stashed /\ pop_ok
                       THEN [repo EXCEPT !.stash = @ - 1, !.uncommitted = TRUE]
                       ELSE repo
    /\ UNCHANGED <<script, workers>>
    /\ script_step("sync_push", NULL,
                   IF script.pull_only THEN "skipped" ELSE IF push_ok THEN "ok" ELSE "failure")

\* main, "Step 2: Pull (unless --push-only)"
sync_pull(pull_ok) ==
    /\ script.name = "sync_storytree"
    /\ main.pc = "pull"
    /\ IF script.push_only
       THEN main' = [main EXCEPT !.pc = "restore"]
       ELSE main' = [main EXCEPT !.pc = "restore", !.pull_ran = TRUE,
                                 !.pull_success = pull_ok,
                                 !.success = IF pull_ok THEN @ ELSE FALSE]
    /\ UNCHANGED <<script, workers, repo>>
    /\ script_step("sync_pull", NULL,
                   IF script.push_only THEN "skipped" ELSE IF pull_ok THEN "ok" ELSE "failure")

\* main from "# Restore stashed changes" to sys.exit
sync_main_end_NoPop(pop_ok) ==
    /\ script.name = "sync_storytree"
    /\ main.pc = "restore"
    /\ main' = [main EXCEPT !.pc = "exited",
                            !.exit_code = IF main.success THEN 0 ELSE 1]
    /\ UNCHANGED <<script, workers, repo>>
    /\ script_step("sync_main_end", NULL, "exit")

sync_main_end(pop_ok) ==
    /\ script.name = "sync_storytree"
    /\ main.pc = "restore"
    /\ main' = [main EXCEPT !.pc = "exited",
                            !.pops = IF main.stashed THEN @ + 1 ELSE @,
                            !.exit_code = IF main.success THEN 0 ELSE 1]
    /\ repo' = IF main.stashed /\ pop_ok
               THEN [repo EXCEPT !.stash = @ - 1, !.uncommitted = TRUE]
               ELSE repo
    /\ UNCHANGED <<script, workers>>
    /\ script_step("sync_main_end", NULL, "exit")

\* sync_storytree.py started with any of its options
InitSync ==
    /\ NoWindow
    /\ \E dry_run \in BOOLEAN, push_only \in BOOLEAN, pull_only \in BOOLEAN,
          retry_push \in BOOLEAN, no_stash \in BOOLEAN :
          script = [name |-> "sync_storytree", dry_run |-> dry_run,
                    push_only |-> push_only, pull_only |-> pull_only,
                    retry_push |-> retry_push, no_stash |-> no_stash]
    /\ main = [pc |-> "start", stashed |-> FALSE, pops |-> 0, success |-> TRUE,
               push_ran |-> FALSE, push_success |-> FALSE,
               pull_ran |-> FALSE, pull_success |-> FALSE, exit_code |-> 0]
    /\ workers = <<>>
    /\ repo \in RepoInputs

NextSync ==
    \/ \E stash_ok \in BOOLEAN : sync_main_begin(stash_ok)
    \/ \E push_ok \in BOOLEAN, pop_ok \in BOOLEAN : sync_push(push_ok, pop_ok)
    \/ \E pull_ok \in BOOLEAN : sync_pull(pull_ok)
    \/ \E pop_ok \in BOOLEAN : sync_main_end(pop_ok)

SpecSync == InitSync /\ [][NextSync]_vars

\* any one of the three scripts, run once
InitScripts == InitSync \/ InitPush \/ InitPull

NextScripts == NextSync \/ NextPush \/ NextPull

SpecScripts == InitScripts /\ [][NextScripts]_vars

(***************************************************************************)
(* Properties                                                              *)
(***************************************************************************)
\* the last handler run committed a row write through the GUI / the CLI
GuiWrote == lastOp.op = "on_confirm" /\ lastOp.outcome = "updated"
CliWrote == lastOp.op = "update_status" /\ lastOp.outcome = "updated"

\* stage, status and terminus of a row
Fields(row) == <<row.stage, row.status, row.terminus>>

\* C1: after any sequence of GUI transitions and CLI status updates (with or
\* without --hold) no node has both a non-null terminus and a status other
\* than "ready".
C1_ActiveConditionExclusive ==
    \A i \in DOMAIN story_nodes :
        ~(story_nodes[i].terminus # NULL /\ story_nodes[i].status # "ready")

\* C2: applying a stage-category target to an existing node (GUI transition,
\* or CLI update without --hold) leaves stage = target, status = "ready" and
\* terminus = null, whatever the node's prior status and terminus.
C2_StageTargetResetsBoth ==
    ((GuiWrote \/ (CliWrote /\ ~lastOp.hold)) /\ lastOp.target \in STAGE_VALUES)
        => Fields(story_nodes[lastOp.id]) = <<lastOp.target, "ready", NULL>>

\* C3: applying a terminus-category target to an existing node leaves
\* terminus = target and status = "ready" whatever the prior status, and
\* leaves stage unchanged; testing/ready/null with target "shipped" yields
\* testing/ready/shipped.
C3_TerminusTarget ==
    ((GuiWrote \/ CliWrote) /\ lastOp.target \in TERMINUS_VALUES)
        => /\ Fields(story_nodes[lastOp.id]) = <<prev[lastOp.id].stage, "ready", lastOp.target>>
           /\ (Fields(prev[lastOp.id]) = <<"testing", "ready", NULL>> /\ lastOp.target = "shipped")
                 => Fields(story_nodes[lastOp.id]) = <<"testing", "ready", "shipped">>

C3_Witness ==
    /\ GuiWrote
    /\ lastOp.target = "shipped"
    /\ prev[lastOp.id].status # "ready"
    /\ Fields(story_nodes[lastOp.id]) = <<prev[lastOp.id].stage, "ready", "shipped">>

\* C4: applying a status-category target to an existing node through the
\* transition operation sets status = target and terminus = null and leaves
\* stage unchanged.
C4_StatusTarget ==
    (GuiWrote /\ lastOp.target \in STATUS_VALUES_HOLDS)
        => Fields(story_nodes[lastOp.id]) = <<prev[lastOp.id].stage, lastOp.target, NULL>>

C4_Witness ==
    /\ GuiWrote
    /\ lastOp.target = "polish"
    /\ prev[lastOp.id].terminus = "shipped"
    /\ Fields(story_nodes[lastOp.id]) = <<"releasing", "polish", NULL>>

\* C5: a transition whose target is in none of the writer's category tables
\* is rejected before the row is touched: no row's stage, status, terminus,
\* notes or updated_at changes.
C5_UnknownTargetRejected ==
    (\/ /\ lastOp.op = "on_confirm"
        /\ lastOp.target \notin (STAGE_VALUES \cup STATUS_VALUES_HOLDS \cup TERMINUS_VALUES)
     \/ /\ lastOp.op = "update_status"
        /\ lastOp.target \notin VALID_STAGES)
        => /\ story_nodes = prev
           /\ lastOp.outcome \in {"value_error", "invalid_stage"}

C5_Witness ==
    /\ lastOp.op = "on_confirm"
    /\ lastOp.target = "bogus"
    /\ lastOp.id \in DOMAIN story_nodes
    /\ msgbox = "Database Error"
    /\ now > 0

\* C6: a transition to the target with a mandatory note ("polish") confirmed
\* with an empty note is rejected with a validation error, and the node's
\* stage, status, terminus and notes stay as they were.
C6_MandatoryNote ==
    (lastOp.op = "on_confirm" /\ lastOp.target = "polish" /\ strip(lastOp.notes) = <<>>)
        => /\ lastOp.outcome = "notes_required"
           /\ msgbox = "Notes Required"
           /\ story_nodes = prev

C6_Witness ==
    /\ lastOp.op = "on_confirm"
    /\ lastOp.target = "polish"
    /\ lastOp.notes = <<" ">>
    /\ Fields(story_nodes[lastOp.id]) = <<"concept", "escalated", NULL>>
    /\ msgbox = "Notes Required"

\* C7: a transition or status update naming a story id that has no row is
\* rejected before any mutation, and the caller receives a descriptive error
\* message for it.
C7_UnknownIdRejectedWithMessage ==
    (lastOp.op \in {"change_node_status", "on_confirm", "update_status"}
     /\ lastOp.id \notin DOMAIN prev)
        => /\ story_nodes = prev
           /\ \/ msgbox # "none"
              \/ (result # NULL /\ "error" \in DOMAIN result)

\* C8: a transition has no side effect beyond the single row of the targeted
\* node: no other story_nodes row and no story_paths row is created, modified
\* or deleted.
C8_SingleRowFrame ==
    /\ DOMAIN story_nodes = DOMAIN prev
    /\ \A i \in DOMAIN prev : i # lastOp.id => story_nodes[i] = prev[i]
    /\ story_paths = ClosureRows

C8_Witness ==
    /\ GuiWrote \/ CliWrote
    /\ story_nodes[lastOp.id] # prev[lastOp.id]
    /\ \A i \in DOMAIN prev : i # lastOp.id => story_nodes[i] = prev[i]
    /\ \E i \in DOMAIN prev : i # lastOp.id

\* C9: applying the same target to a node twice in a row leaves stage, status
\* and terminus as the first application left them; only the notes grow.
SameTwice ==
    /\ GuiWrote
    /\ Len(writes) >= 2
    /\ writes[Len(writes)] = writes[Len(writes) - 1]

C9_Idempotent ==
    SameTwice
        => /\ Fields(story_nodes[lastOp.id]) = Fields(prev[lastOp.id])
           /\ Len(story_nodes[lastOp.id].notes) = Len(prev[lastOp.id].notes) + 1

C9_Witness ==
    /\ SameTwice
    /\ lastOp.target = "polish"
    /\ Len(story_nodes[lastOp.id].notes) = 2

\* C10: each target accepted by a state-changing writer belongs to exactly
\* one of the categories stage, status, terminus: no value is written as one
\* category by one writer and as another category by another.
C10_OneCategoryPerTarget ==
    \A m, n \in 1..Len(writes) :
        (/\ writes[m].target = writes[n].target
         /\ writes[m].field # "hold"
         /\ writes[n].field # "hold")
            => writes[m].field = writes[n].field

\* the targets the footer offered for the node of the last handler, as the
\* row stood before that handler ran
OfferedBefore ==
    LET seq == add_status_actions(StoryNode(prev[lastOp.id]), respond_mode_active)
    IN  {seq[k] : k \in DOMAIN seq}

\* C11: whether a GUI transition is accepted, and the stage, status and
\* terminus it writes, are decided by the target (and the row) alone: they
\* are the same with respond mode on or off and whether or not the
\* transition tables offer the target for the node.
C11_PostureIndependent ==
    (lastOp.op = "on_confirm" /\ lastOp.outcome \in {"updated", "value_error"}) =>
        LET t == lastOp.target
            id == lastOp.id
        IN  /\ (lastOp.outcome = "updated") <=>
                   (t \in STAGE_VALUES \cup STATUS_VALUES_HOLDS \cup TERMINUS_VALUES)
            /\ (lastOp.outcome = "updated" /\ id \in DOMAIN prev) =>
                   Fields(story_nodes[id]) =
                       IF t \in TERMINUS_VALUES THEN <<prev[id].stage, "ready", t>>
                       ELSE IF t \in STATUS_VALUES_HOLDS THEN <<prev[id].stage, t, NULL>>
                       ELSE <<t, "ready", NULL>>

\* a transition the tables did not offer was accepted with respond mode off
C11_Witness ==
    /\ GuiWrote
    /\ lastOp.id \in DOMAIN prev
    /\ ~respond_mode_active
    /\ lastOp.target \notin OfferedBefore

\* the priority rule: terminus if not null, else status unless it is
\* "ready", else stage
PriorityRule(stage, status, terminus) ==
    IF terminus # NULL THEN terminus
    ELSE IF status # "ready" THEN status
    ELSE stage

SegmentValues(id) == [k \in DOMAIN split(id) |-> int(split(id)[k])]

Numeric(id) == id # root_id /\ \A k \in DOMAIN split(id) : ~ValueError(split(id)[k])

\* a may stand before b: root first, numeric ids by the values of their
\* segments, non-numeric ids lexicographically
MayPrecede(a, b) ==
    /\ b = root_id => a = root_id
    /\ (Numeric(a) /\ Numeric(b)) => ~ints_lt(SegmentValues(b), SegmentValues(a))
    /\ (a # root_id /\ b # root_id /\ ~Numeric(a) /\ ~Numeric(b)) => ~str_lt(b, a)

\* C14: a sorted children list holds the ids it held before, root first,
\* numeric ids by the numeric value of their dot-separated segments and
\* non-numeric ids lexicographically; the ids "2", "10", "1", "10.1" come out
\* as "1", "2", "10", "10.1".
C14_LineageOrder ==
    lastOp.op = "sort_children" =>
        /\ Len(children) = Len(lastOp.notes)
        /\ {children[k] : k \in DOMAIN children} =
               {lastOp.notes[k] : k \in DOMAIN lastOp.notes}
        /\ \A i, j \in DOMAIN children : i < j => MayPrecede(children[i], children[j])
        /\ {children[k] : k \in DOMAIN children} =
               {<<"2">>, <<"1", "0">>, <<"1">>, <<"1", "0", ".", "1">>}
             => children = <<<<"1">>, <<"2">>, <<"1", "0">>, <<"1", "0", ".", "1">>>>

\* the list "2", "10", "1", "10.1" was sorted
C14_Witness ==
    /\ lastOp.op = "sort_children"
    /\ lastOp.notes = <<<<"2">>, <<"1", "0">>, <<"1">>, <<"1", "0", ".", "1">>>>
    /\ children = <<<<"1">>, <<"2">>, <<"1", "0">>, <<"1", "0", ".", "1">>>>

\* the ancestor_id values of the closure rows whose descendant is id, but
\* for id itself
ClosureAncestors(id) == {r[1] : r \in {q \in story_paths : q[2] = id /\ q[1] # id}}

\* the ancestor_id values of the depth-1 rows whose descendant is id
DepthOneParents(id) == {r[1] : r \in {q \in story_paths : q[2] = id /\ q[3] = 1}}

\* the closure table is complete over its depth-1 rows: every row joins two
\* nodes, no node has two depth-1 rows, and the rows into a node are the one
\* from its parent and those into its parent
ClosureComplete ==
    /\ \A r \in story_paths : r[1] \in DOMAIN story_nodes /\ r[2] \in DOMAIN story_nodes
    /\ \A i \in DOMAIN story_nodes :
          /\ Cardinality(DepthOneParents(i)) <= 1
          /\ ClosureAncestors(i) =
                 UNION {{p} \cup ClosureAncestors(p) : p \in DepthOneParents(i)}

\* C15 as stated: the set _get_ancestors returns for a node is the set of
\* ancestor_id values of the closure rows whose descendant_id is that node,
\* the node itself left out.
C15_AncestorsAreClosureRows ==
    walk.pc = "done" => walk.ancestors = ClosureAncestors(walk.node_id)

\* C15, amended: when the closure table is complete over its depth-1 rows,
\* the set _get_ancestors returns for a node is the set of ancestor_id
\* values of the closure rows whose descendant_id is that node, the node
\* itself left out.
C15_AncestorsOfCompleteClosure ==
    (walk.pc = "done" /\ ClosureComplete) =>
        walk.ancestors = ClosureAncestors(walk.node_id)

\* the walk from a node two levels down returned both of its ancestors
C15_Witness ==
    /\ walk.pc = "done"
    /\ ClosureComplete
    /\ walk.node_id = "1.1"
    /\ walk.ancestors = {"1", "root"}

\* C12: the effective status of every node the GUI holds, and the status
\* the orphan listing prints for a node, is its terminus if that is not
\* null, else its status if that is not "ready", else its stage: a function
\* of those three fields alone.
C12_EffectiveStatusRule ==
    /\ \A i \in DOMAIN nodes :
          nodes[i].effective_status =
              PriorityRule(nodes[i].stage, nodes[i].status, nodes[i].terminus)
    /\ (lastOp.op = "list_orphans" /\ ~lastOp.hold) =>
          \A i \in result.orphans :
              <<i, PriorityRule(story_nodes[i].stage, story_nodes[i].status,
                                story_nodes[i].terminus)>> \in result.printed

\* a node with a terminus and a status other than "ready" was loaded by the
\* GUI and printed by the orphan listing
C12_Witness ==
    /\ lastOp.op = "list_orphans"
    /\ ~lastOp.hold
    /\ "1.1" \in result.orphans
    /\ story_nodes["1.1"].terminus = "shipped"
    /\ story_nodes["1.1"].status = "escalated"
    /\ nodes["1.1"].effective_status = "shipped"
    /\ <<"1.1", "shipped">> \in result.printed

\* C16: the orphan listing returns exactly the non-root nodes that no
\* closure row names as descendant of an ancestor other than themselves.
C16_OrphansListed ==
    lastOp.op = "list_orphans" =>
        result.orphans =
            {i \in DOMAIN story_nodes : i # "root" /\ ClosureAncestors(i) = {}}

\* C17: the descendant count of a node is the number of closure rows with
\* that node as ancestor, minus one; with the node's self row in the table
\* that is the number of its descendants other than itself.
C17_DescendantCount ==
    \A i \in DOMAIN tree :
        /\ tree[i].descendants_count =
               Cardinality({r \in story_paths : r[1] = i}) - 1
        /\ (\E r \in story_paths : r[1] = i /\ r[2] = i) =>
               tree[i].descendants_count =
                   Cardinality({r[2] : r \in {q \in story_paths : q[1] = i}} \ {i})

\* the root of the whole tree root -> "1" -> "1.1" was loaded with two
\* descendants
C17_Witness ==
    /\ lastOp.op = "load_database"
    /\ TreeRows \subseteq story_paths
    /\ tree["root"].descendants_count = 2

\* C18: a run of the orphan listing or of the tree health report leaves
\* every story node row and every closure row as it was: issues are
\* reported, not corrected.
C18_ToolsReadOnly ==
    [][lastOp'.op \in {"list_orphans", "tree_health"} =>
          (story_nodes' = story_nodes /\ story_paths' = story_paths)]_vars

\* the orphan listing reported an orphan, which is an orphan still
C18_Witness ==
    /\ lastOp.op = "list_orphans"
    /\ result.orphans # {}
    /\ result.orphans = orphan_rows(story_nodes, story_paths)

\* C19: the orphan listing and the tree health report exit with code 0 when
\* they found no issue and with code 1 when they found one.
C19_ExitCode ==
    /\ lastOp.op = "list_orphans" =>
          (result.exit_code = IF result.orphans = {} THEN 0 ELSE 1)
    /\ lastOp.op = "tree_health" =>
          (result.exit_code = IF total_issues(result.issues) = 0 THEN 0 ELSE 1)

\* C20: a CLI status update given --hold leaves the stage of the node as it
\* was, whatever stage was named, makes its status "escalated" and sets its
\* human_review flag.
C20_HoldEscalates ==
    (CliWrote /\ lastOp.hold) =>
        /\ story_nodes[lastOp.id].stage = prev[lastOp.id].stage
        /\ story_nodes[lastOp.id].status = "escalated"
        /\ story_nodes[lastOp.id].human_review = 1

\* --hold was given with another stage than the node's, on a node that was
\* not escalated
C20_Witness ==
    /\ CliWrote
    /\ lastOp.hold
    /\ lastOp.target # prev[lastOp.id].stage
    /\ prev[lastOp.id].status = "ready"
    /\ prev[lastOp.id].human_review = 0
    /\ story_nodes[lastOp.id].status = "escalated"

\* the checkbox settings in force while Respond mode is off, as saved
SavedSettings == restore_checkbox_states(status_checkboxes, saved_checkbox_states)

\* the handler that ran in this step is a checkbox handler: a click on one
\* checkbox or on the All / None button of a category
CheckboxStep == lastOp'.op \in {"checkbox_clicked", "select_category_statuses"}

\* C25: turning Respond mode off leaves the filter checkboxes equal to the
\* settings last saved while Respond mode was off (all checked if none were
\* saved); a checkbox handler begun while Respond mode is on saves nothing,
\* and a later save stores no setting other than those the user changed
\* while Respond mode was off, so what was changed in Respond mode is
\* forgotten.
C25_RespondChangesForgotten ==
    [][/\ (lastOp'.op = "toggle_respond_mode" /\ respond_mode_active)
              => status_checkboxes' = SavedSettings
       /\ (CheckboxStep /\ respond_mode_active)
              => saved_checkbox_states' = saved_checkbox_states
       /\ (CheckboxStep /\ saved_checkbox_states' # saved_checkbox_states)
              => \A name \in CheckboxNames :
                     saved_checkbox_states'[name] # SavedSettings[name]
                         => status_checkboxes'[name] # status_checkboxes[name]]_vars

\* C26: whenever Respond mode is active the filter checkboxes are the
\* Respond preset: every stage checked, of the statuses only "escalated"
\* and of the termini only "shipped".
C26_RespondPreset ==
    respond_mode_active =>
        /\ \A name \in items(STAGE_ORDER) : status_checkboxes[name]
        /\ \A name \in items(STATUS_ORDER_HOLDS) :
               status_checkboxes[name] <=> name = "escalated"
        /\ \A name \in items(TERMINUS_ORDER) :
               status_checkboxes[name] <=> name = "shipped"

\* a story matches the filter: its stage is checked, and its status or its
\* terminus (the "active" box standing for no terminus) is checked
Matches(i) ==
    LET row == story_nodes[i]
    IN  /\ status_checkboxes[row.stage]
        /\ \/ status_checkboxes[row.status]
           \/ status_checkboxes[IF row.terminus = NULL THEN "active" ELSE row.terminus]

\* C27: after the filters are applied the tree shows exactly the stories
\* that match and the ancestors of those that match; a story shown is faded
\* iff it does not itself match.
C27_FilteredTree ==
    /\ DOMAIN tree_items =
           {i \in DOMAIN story_nodes : Matches(i)}
               \cup UNION {ClosureAncestors(i) : i \in {j \in DOMAIN story_nodes : Matches(j)}}
    /\ \A i \in DOMAIN tree_items : tree_items[i] = "faded" <=> ~Matches(i)

\* a filter that shows a matching story, a faded ancestor that does not
\* match, and hides a story
C27_Witness ==
    /\ lastOp.op # "init"
    /\ \E i \in DOMAIN tree_items : tree_items[i] = "faded"
    /\ \E i \in DOMAIN tree_items : tree_items[i] = "normal" /\ ClosureAncestors(i) # {}
    /\ \E i \in DOMAIN story_nodes : i \notin DOMAIN tree_items

\* C29: for every node of every node set loaded, whatever depth-1 rows the
\* closure table holds, an ancestor walk that was started comes to its end.
C29_WalkTerminates == (walk.pc = "loop") ~> (walk.pc = "done")

\* the step taken is a step of the push of subtree p: a part of
\* push_subtree_fast, run by a worker thread in parallel mode
WorkerStep(p) ==
    /\ lastOp'.op \in {"push_subtree_fast", "recover_rejected_push", "push_retry"}
    /\ lastOp'.id = p

\* C21: in parallel mode a step of the push of one subtree writes nothing
\* but the state of that push: the options, the state of main with its
\* failures list and the state of every other push are as they were; the
\* git processes it runs are its only effect outside.
C21_WorkersShareNothing ==
    [][\A p \in ChangedSubtrees :
          (script.parallel /\ WorkerStep(p)) =>
              /\ main' = main
              /\ script' = script
              /\ \A q \in DOMAIN workers \ {p} : workers'[q] = workers[q]]_vars

\* two pushes run at once: one waits for its second push while the other
\* has just been rejected
C21_Witness ==
    /\ script.name = "push_fast"
    /\ script.parallel
    /\ lastOp.op = "push_subtree_fast"
    /\ \E p, q \in DOMAIN workers :
          /\ p # q
          /\ lastOp.id = p
          /\ workers[p].pc = "recover"
          /\ workers[q].pc = "retry"

\* C22: one subtree push runs git subtree push a second time iff the first
\* was rejected, --retry was given and the recovery succeeded, and never a
\* third time; without --retry a rejected push runs no recovery and returns
\* a failure whose message advises --retry.
C22_RetryOnce ==
    script.name = "push_fast" =>
        \A p \in DOMAIN workers :
            LET w == workers[p]
            IN  /\ w.attempts <= 2
                /\ w.attempts = 2 => (w.rc = "rejected" /\ script.retry /\ w.recovered)
                /\ (w.pc = "returned" /\ w.rc = "rejected" /\ script.retry /\ w.recovered)
                       => w.attempts = 2
                /\ ~script.retry => w.recoveries = 0
                /\ (w.pc = "returned" /\ w.rc = "rejected" /\ ~script.retry) =>
                       /\ ~w.success
                       /\ w.attempts = 1
                       /\ w.message = <<"rejected (diverged) - use --retry to auto-recover">>

\* a push that was rejected, recovered and pushed again, and one that was
\* rejected without --retry
C22_Witness ==
    /\ script.name = "push_fast"
    /\ \E p \in DOMAIN workers :
          /\ workers[p].pc = "returned"
          /\ workers[p].rc = "rejected"
          /\ \/ workers[p].attempts = 2 /\ workers[p].success
             \/ ~script.retry /\ ~workers[p].success

\* the subtrees whose push returned a failure
Failed == {p \in DOMAIN workers : workers[p].pc = "returned" /\ ~workers[p].success}

C23_FailureLeavesNoMerge ==
    script.name = "pull_fast" =>
        \A p \in DOMAIN workers :
            LET call == workers[p].resolve
            IN  (call.called /\ ~call.result.success) =>
                    /\ ~call.result.merge_in_progress
                    /\ call.git.merge => call.result.abort_invoked
                    /\ call.result.abort_invoked => call.git.merge

\* C24 as stated: in a live sync the pull step starts only after the push
\* step has succeeded; if the push fails the pull is never run and the
\* process exits with code 1.
C24_PullOnlyAfterPush ==
    (script.name = "sync_storytree" /\ ~script.dry_run) =>
        /\ main.pull_ran => (main.push_ran /\ main.push_success)
        /\ (main.push_ran /\ ~main.push_success) =>
               (~main.pull_ran /\ main.pc = "exited" /\ main.exit_code = 1)

\* C24, amended: in a live sync that was not given --pull-only the pull
\* step starts only after the push step has succeeded; if the push fails
\* the pull is never run and the process exits with code 1.
C24_PullAfterPushUnlessPullOnly ==
    (script.name = "sync_storytree" /\ ~script.dry_run) =>
        /\ (main.pull_ran /\ ~script.pull_only) => (main.push_ran /\ main.push_success)
        /\ (main.push_ran /\ ~main.push_success) =>
               (~main.pull_ran /\ main.pc = "exited" /\ main.exit_code = 1)

\* a live sync in both directions whose push failed
C24_Witness ==
    /\ script.name = "sync_storytree"
    /\ ~script.dry_run
    /\ ~script.pull_only
    /\ ~script.push_only
    /\ main.push_ran
    /\ ~main.push_success
    /\ main.pc = "exited"

\* C28: a sync, push or pull run that stashed the uncommitted changes runs
\* git stash pop exactly once before it exits, whether the push failed, the
\* pull failed or all went well, and a run that did not stash runs it never.
C28_StashRestoredOnce ==
    script.name \in {"sync_storytree", "push_fast", "pull_fast"} =>
        /\ main.pops <= (IF main.stashed THEN 1 ELSE 0)
        /\ (main.pc = "exited" /\ main.stashed) => main.pops = 1

\* a run that stashed and exited with a failure
C28_Witness ==
    /\ script.name \in {"sync_storytree", "push_fast", "pull_fast"}
    /\ main.pc = "exited"
    /\ main.stashed
    /\ main.pops = 1
    /\ main.exit_code = 1

====
